---------------------------- MODULE Spec2Model ----------------------------
(***************************************************************************)
(* Memory-management core of the rust-nL kernel:                           *)
(*   - the bump heap allocator        (src/src/allocator/bump.rs)          *)
(*   - the boot-map frame allocator   (src/src/memory.rs)                  *)
(*   - the four-level address translator and the page mapper it is used    *)
(*     with                           (src/src/memory.rs)                  *)
(*   - the heap bootstrap, init_heap  (src/src/allocator.rs)               *)
(*   - the lock around the heap allocator (src/src/allocator/bump.rs)      *)
(*   - the text console writer        (src/src/vga_buffer.rs)              *)
(*   - the boot sequence, kernel_main (src/src/main.rs)                    *)
(* Each component has its own specification (SpecBump, SpecFrames,         *)
(* SpecPaging, ...); a specification leaves the variables of the other     *)
(* components at their construction values.                                *)
(***************************************************************************)
EXTENDS Integers, Sequences, FiniteSets, TLC

VARIABLES
    \* The heap allocator: the BumpAllocator behind the lock, whether init
    \* has run, the blocks handed out since the last reset, the last call.
    bump, heap_inited, blocks, last,
    \* The frame allocator: BootInfoFrameAllocator { memory_map, next } and
    \* the values its allocate_frame calls returned, in call order.
    frame_allocator, frames_out,
    \* Paging: the page tables in physical memory (frame start address ->
    \* table), the pages mapped so far through the page mapper (page start
    \* address -> frame start address), the last paging call, and whether
    \* the kernel has panicked.
    tables, mapped, pt_last, halted,
    \* The calls made on the heap allocator since its init, with what each
    \* returned and the state it left.
    history,
    \* The heap bootstrap: the last init_heap call and its result.
    init_heap_result,
    \* The lock around the heap allocator: its holder, each execution
    \* context's position in its alloc or dealloc call, the call's locals,
    \* and the allocator as the calls made so far leave it when run one
    \* after the other in the order they took the lock.
    lock, pc, call, serial,
    \* The console: the Writer behind WRITER, the cell its last character
    \* write went to, the strings of the last write_string calls, the number
    \* of calls made.
    writer, vga_last, recent, writes,
    \* The boot sequence: kernel_main's position, the mutable views of the
    \* level 4 table obtained so far, the timer interrupts handled.
    kernel_pc, mappers, ticks,
    \* The global allocator: the linked_list_allocator heap behind ALLOCATOR,
    \* and its last call with what the bump allocator returned for it.
    heap, global_last,
    \* Printing under interrupts: the CPU's interrupt flag, the holder of the
    \* WRITER spin lock, the stack of interrupted code with the running code
    \* on top, and the interrupt lines raised but not yet delivered.
    interrupt_flag, WRITER_lock, cpu_stack, pending

heap_vars == <<bump, heap_inited, blocks, last>>
frame_vars == <<frame_allocator, frames_out>>
paging_vars == <<tables, mapped, pt_last, halted>>
scenario_vars == <<history>>
boot_vars == <<init_heap_result>>
locked_vars == <<lock, pc, call, serial>>
console_vars == <<writer, vga_last, recent, writes>>
kernel_vars == <<kernel_pc, mappers, ticks>>
global_vars == <<heap, global_last>>
print_vars == <<interrupt_flag, WRITER_lock, cpu_stack, pending>>
other_vars == <<scenario_vars, boot_vars, locked_vars, console_vars, kernel_vars,
               global_vars, print_vars>>
vars == <<heap_vars, frame_vars, paging_vars, other_vars>>

(***************************************************************************)
(* Bounds of the model.                                                    *)
(***************************************************************************)
\* usize::MAX, scaled: addresses and sizes are the integers 0..UsizeMax.
UsizeMax == 255
\* The largest arena size handed to BumpAllocator::init.
MaxHeapSize == 5
\* Alignments are the powers of two 2^0 .. 2^MaxAlignLog.
MaxAlignLog == 3

\* Physical frame numbers of the memory map are 0..MaxFrameNumber.
MaxFrameNumber == 4
\* A memory map has at most MaxRegions regions.
MaxRegions == 3
\* allocate_frame is called at most MaxCalls times.
MaxCalls == 6

\* The worked example records at most MaxScenarioCalls calls.
MaxScenarioCalls == 6

\* The screen has BUFFER_HEIGHT rows and BUFFER_WIDTH columns (25 and 80 in
\* src/src/vga_buffer.rs, scaled), and at most MaxWrites calls are made on
\* the console writer.
BUFFER_HEIGHT == 3
BUFFER_WIDTH == 3
MaxWrites == 4

\* At most MaxTicks timer interrupts arrive while the kernel boots.
MaxTicks == 3

\* At most MaxGlobalCalls allocations are made through the global allocator.
MaxGlobalCalls == 4

\* linked_list_allocator: the smallest hole, two machine words, and a hole's
\* alignment, one machine word.
HOLE_MIN_SIZE == 16
HOLE_ALIGN == 8

\* Color::Black, Color::LightGray, Color::Yellow.
Black == 0
LightGray == 7
Yellow == 14

\* b'\n', b' ', b'*' and b'x'.
Newline == 10
Space == 32
Star == 42
LetterX == 120

\* A page table index has IndexBits bits (a table has 2^IndexBits entries).
IndexBits == 2
\* The paging memory maps offer 0..MaxUsable usable frames.
MaxUsable == 5

\* The outcome `None` of a checked operation or of an Option.
None == -1

HeapStarts == {0, 3, UsizeMax - MaxHeapSize}
HeapSizes == {MaxHeapSize - 1, MaxHeapSize}
Sizes == 1 .. (MaxHeapSize + 1)
Aligns == {2 ^ k : k \in 0 .. MaxAlignLog}

(***************************************************************************)
(* The bump allocator, src/src/allocator/bump.rs.                          *)
(***************************************************************************)
\* BumpAllocator::new(): every field is 0.
BumpAllocator_new == [heap_start |-> 0, heap_end |-> 0, next |-> 0, allocations |-> 0]

\* BumpAllocator::init(heap_start, heap_size).
BumpAllocator_init(b, start, size) ==
    [b EXCEPT !.heap_start = start, !.heap_end = start + size, !.next = start]

\* ptr::null_mut(): the address 0.
null_mut == 0

\* usize::checked_add.
checked_add(a, b) == IF a + b > UsizeMax THEN None ELSE a + b

\* align_up(addr, align): addr rounded up to the next multiple of align.
align_up(addr, align) == ((addr + align - 1) \div align) * align

\* alloc handing out the unaligned bump pointer.
alloc_unaligned(b, size, align) ==
    LET alloc_start == b.next
        alloc_end == checked_add(alloc_start, size)
    IN  IF alloc_end = None \/ alloc_end > b.heap_end
        THEN [bump |-> b, ptr |-> null_mut]
        ELSE [bump |-> [b EXCEPT !.next = alloc_end, !.allocations = @ + 1],
              ptr |-> alloc_start]

\* alloc counting the allocation before it knows that the block fits.
alloc_count_on_failure(b, size, align) ==
    LET alloc_start == align_up(b.next, align)
        alloc_end == checked_add(alloc_start, size)
        b1 == [b EXCEPT !.allocations = @ + 1]
    IN  IF alloc_end = None \/ alloc_end > b.heap_end
        THEN [bump |-> b1, ptr |-> null_mut]
        ELSE [bump |-> [b1 EXCEPT !.next = alloc_end], ptr |-> alloc_start]

\* alloc without the comparison against heap_end.
alloc_no_end_check(b, size, align) ==
    LET alloc_start == align_up(b.next, align)
        alloc_end == checked_add(alloc_start, size)
    IN  IF alloc_end = None
        THEN [bump |-> b, ptr |-> null_mut]
        ELSE [bump |-> [b EXCEPT !.next = alloc_end, !.allocations = @ + 1],
              ptr |-> alloc_start]

\* alloc bumping next to the start of the block instead of its end.
alloc_no_bump(b, size, align) ==
    LET alloc_start == align_up(b.next, align)
        alloc_end == checked_add(alloc_start, size)
    IN  IF alloc_end = None \/ alloc_end > b.heap_end
        THEN [bump |-> b, ptr |-> null_mut]
        ELSE [bump |-> [b EXCEPT !.next = alloc_start, !.allocations = @ + 1],
              ptr |-> alloc_start]

\* alloc starting over from heap_start when the block does not fit after next.
alloc_wrapping(b, size, align) ==
    LET alloc_start == align_up(b.next, align)
        alloc_end == checked_add(alloc_start, size)
        wrap_start == align_up(b.heap_start, align)
        wrap_end == checked_add(wrap_start, size)
    IN  IF alloc_end # None /\ alloc_end <= b.heap_end
        THEN [bump |-> [b EXCEPT !.next = alloc_end, !.allocations = @ + 1],
              ptr |-> alloc_start]
        ELSE IF wrap_end # None /\ wrap_end <= b.heap_end
             THEN [bump |-> [b EXCEPT !.next = wrap_end, !.allocations = @ + 1],
                   ptr |-> wrap_start]
             ELSE [bump |-> b, ptr |-> null_mut]

\* GlobalAlloc::alloc on the locked allocator: the new allocator state and
\* the returned pointer.
alloc(b, size, align) ==
    LET alloc_start == align_up(b.next, align)
        alloc_end == checked_add(alloc_start, size)
    IN  IF alloc_end = None
        THEN [bump |-> b, ptr |-> null_mut]
        ELSE IF alloc_end > b.heap_end
             THEN [bump |-> b, ptr |-> null_mut]
             ELSE [bump |-> [b EXCEPT !.next = alloc_end,
                                      !.allocations = @ + 1],
                   ptr |-> alloc_start]

\* dealloc resetting next on every call.
dealloc_always_reset(b) ==
    [b EXCEPT !.allocations = @ - 1, !.next = b.heap_start]

\* dealloc that never resets next.
dealloc_never_reset(b) ==
    [b EXCEPT !.allocations = @ - 1]

\* GlobalAlloc::dealloc on the locked allocator.
dealloc(b) ==
    LET b1 == [b EXCEPT !.allocations = @ - 1]
    IN  IF b1.allocations = 0
        THEN [b1 EXCEPT !.next = b1.heap_start]
        ELSE b1

NoCall == [op |-> "new", size |-> 0, align |-> 0, ret |-> 0, ok |-> FALSE,
           pre_next |-> 0, pre_allocations |-> 0, after_reset |-> FALSE]

\* The heap allocator as constructed.
HeapNew ==
    /\ bump = BumpAllocator_new
    /\ heap_inited = FALSE
    /\ blocks = <<>>
    /\ last = NoCall

\* No frame allocator constructed yet.
FramesIdle ==
    /\ frame_allocator = [memory_map |-> <<>>, next |-> 0]
    /\ frames_out = <<>>

\* No page table set up, no paging call made.
PagingIdle ==
    /\ tables = <<>>
    /\ mapped = <<>>
    /\ pt_last = [op |-> "none", addr |-> 0, tag |-> "none", value |-> 0]
    /\ halted = FALSE

\* No call recorded on the heap allocator.
ScenarioIdle == history = <<>>

\* init_heap not called.
NoInitHeap == [called |-> FALSE, start |-> 0, size |-> 0, err |-> "none",
               pages |-> <<>>, frames |-> <<>>, failed |-> 0,
               second |-> "none", second_failed |-> 0, second_init |-> FALSE]
BootIdle == init_heap_result = NoInitHeap

\* No execution context uses the lock.
LockedIdle ==
    /\ lock = FALSE
    /\ pc = <<>>
    /\ call = <<>>
    /\ serial = <<>>

\* No console writer constructed.
ConsoleIdle ==
    /\ writer = [column_position |-> 0, color_code |-> 0, buffer |-> <<>>]
    /\ vga_last = [targets |-> <<>>, fault |-> FALSE]
    /\ recent = <<>>
    /\ writes = 0

\* The kernel not started.
KernelIdle ==
    /\ kernel_pc = "off"
    /\ mappers = 0
    /\ ticks = 0

\* The global allocator not in use.
NoGlobalCall == [op |-> "none", size |-> 0, align |-> 0, ret |-> 0, bump_ret |-> 0,
                 agree |-> TRUE]
GlobalIdle ==
    /\ heap = [bottom |-> 0, size |-> 0, holes |-> <<>>]
    /\ global_last = NoGlobalCall

\* No printing under interrupts in progress.
PrintIdle ==
    /\ interrupt_flag = FALSE
    /\ WRITER_lock = "none"
    /\ cpu_stack = <<>>
    /\ pending = {}

OthersIdle ==
    /\ ScenarioIdle /\ BootIdle /\ LockedIdle /\ ConsoleIdle /\ KernelIdle
    /\ GlobalIdle /\ PrintIdle

InitBump == HeapNew /\ FramesIdle /\ PagingIdle /\ OthersIdle

\* init_heap's ALLOCATOR.lock().init(start, size): once, at boot.
BumpInit ==
    /\ ~heap_inited
    /\ \E start \in HeapStarts, size \in HeapSizes :
          /\ start + size <= UsizeMax
          /\ bump' = BumpAllocator_init(bump, start, size)
          /\ last' = [NoCall EXCEPT !.op = "init", !.pre_next = bump.next,
                                    !.pre_allocations = bump.allocations]
    /\ heap_inited' = TRUE
    /\ UNCHANGED <<blocks, frame_vars, paging_vars, other_vars>>

\* A caller allocates: Layout { size, align } with size > 0.
Alloc ==
    \E size \in Sizes, align \in Aligns :
       LET r == alloc(bump, size, align)
           ok == r.bump # bump
       IN  /\ bump' = r.bump
           /\ blocks' = IF ok
                        THEN Append(blocks, [addr |-> r.ptr, size |-> size, live |-> TRUE])
                        ELSE blocks
           /\ last' = [op |-> "alloc", size |-> size, align |-> align,
                       ret |-> r.ptr, ok |-> ok,
                       pre_next |-> bump.next,
                       pre_allocations |-> bump.allocations,
                       after_reset |-> (last.op = "dealloc" /\ bump.allocations = 0)]
           /\ UNCHANGED <<heap_inited, frame_vars, paging_vars, other_vars>>

\* A caller frees a block it still holds.
Dealloc ==
    \E i \in DOMAIN blocks :
       /\ blocks[i].live
       /\ bump' = dealloc(bump)
       /\ blocks' = IF bump'.allocations = 0
                    THEN <<>>
                    ELSE [blocks EXCEPT ![i].live = FALSE]
       /\ last' = [NoCall EXCEPT !.op = "dealloc", !.pre_next = bump.next,
                                 !.pre_allocations = bump.allocations]
       /\ UNCHANGED <<heap_inited, frame_vars, paging_vars, other_vars>>

NextBump == BumpInit \/ Alloc \/ Dealloc

SpecBump == InitBump /\ [][NextBump]_vars

(***************************************************************************)
(* Claims about the bump allocator (checked under SpecBump).               *)
(***************************************************************************)
\* The least multiple of align that is >= n.
RoundUp(n, align) == CHOOSE m \in n .. (n + align - 1) : m % align = 0

\* The last call was an alloc whose block fits: no overflow, and within end.
AllocFits ==
    /\ last.op = "alloc"
    /\ RoundUp(last.pre_next, last.align) + last.size <= UsizeMax
    /\ RoundUp(last.pre_next, last.align) + last.size <= bump.heap_end

\* The last call was an alloc whose block does not fit.
AllocDoesNotFit ==
    /\ last.op = "alloc"
    /\ \/ RoundUp(last.pre_next, last.align) + last.size > UsizeMax
       \/ RoundUp(last.pre_next, last.align) + last.size > bump.heap_end

\* C1: an alloc(size, align) whose round_up(next, align) + size neither
\* overflows nor exceeds end returns round_up(next, align), sets next to that
\* address plus size and increments live_count by exactly 1.
C1_AllocSuccess ==
    AllocFits =>
        /\ last.ret = RoundUp(last.pre_next, last.align)
        /\ bump.next = RoundUp(last.pre_next, last.align) + last.size
        /\ bump.allocations = last.pre_allocations + 1

\* C1 witness: a successful alloc that had to skip padding to align the block.
C1_Witness ==
    /\ AllocFits
    /\ heap_inited
    /\ last.ret > last.pre_next

\* C2: an alloc whose round_up(next, align) + size overflows or exceeds end
\* returns null and leaves next and live_count as they were.
C2_AllocFailure ==
    AllocDoesNotFit =>
        /\ last.ret = null_mut
        /\ bump.next = last.pre_next
        /\ bump.allocations = last.pre_allocations

\* C2 witness: a failed alloc on an initialised arena with blocks outstanding
\* whose end address overflows the address width.
C2_Witness ==
    /\ AllocDoesNotFit
    /\ heap_inited
    /\ bump.allocations > 0
    /\ RoundUp(last.pre_next, last.align) + last.size > UsizeMax

\* C3: start <= next <= end in every reachable state.
C3_ArenaInvariant ==
    /\ bump.heap_start <= bump.next
    /\ bump.next <= bump.heap_end

\* C3 witness: an initialised arena, after allocs and a dealloc that left a
\* block outstanding, with next strictly inside the arena.
C3_Witness ==
    /\ heap_inited
    /\ last.op = "dealloc"
    /\ bump.allocations > 0
    /\ bump.heap_start < bump.next
    /\ bump.next < bump.heap_end

\* C4: of two blocks allocated with no full reset between them, the earlier
\* one ends at or before the start of the later one.
C4_NonOverlap ==
    \A i, j \in DOMAIN blocks :
        i < j => blocks[i].addr + blocks[i].size <= blocks[j].addr

\* C4 witness: three blocks allocated since the last reset.
C4_Witness ==
    /\ Len(blocks) >= 3
    /\ blocks[1].addr + blocks[1].size < blocks[2].addr

\* C5: dealloc decrements live_count by one; next is reset to start exactly
\* when live_count reaches zero and is otherwise left alone, so that a freed
\* block is not handed out again while another block is outstanding.
C5_Dealloc ==
    /\ last.op = "dealloc" =>
          /\ bump.allocations = last.pre_allocations - 1
          /\ bump.allocations = 0 => bump.next = bump.heap_start
          /\ bump.allocations > 0 =>
                /\ bump.next = last.pre_next
                /\ bump.next # bump.heap_start
    /\ \A i, j \in DOMAIN blocks :
          (i < j /\ ~blocks[i].live) =>
              blocks[i].addr + blocks[i].size <= blocks[j].addr

\* C5 witness: a dealloc that left a block outstanding; the freed block is
\* followed by a later block.
C5_Witness ==
    /\ last.op = "dealloc"
    /\ bump.allocations > 0
    /\ \E i, j \in DOMAIN blocks : i < j /\ ~blocks[i].live

\* C6 as stated: after live_count returned to zero through dealloc, the next
\* alloc returns exactly start, for every size that fits in the arena and
\* every alignment.
C6_Original ==
    (/\ last.op = "alloc"
     /\ last.after_reset
     /\ last.size <= bump.heap_end - bump.heap_start)
        => last.ret = bump.heap_start

\* C6 amended: after live_count returned to zero through dealloc, the next
\* alloc(size, align) returns round_up(start, align) whenever
\* round_up(start, align) + size <= end; that is exactly start when start is a
\* multiple of align.
C6_BulkReclamation ==
    (last.op = "alloc" /\ last.after_reset) =>
        /\ RoundUp(bump.heap_start, last.align) + last.size <= bump.heap_end
              => last.ret = RoundUp(bump.heap_start, last.align)
        /\ (/\ bump.heap_start % last.align = 0
            /\ last.size <= bump.heap_end - bump.heap_start)
              => last.ret = bump.heap_start

\* C6 witness: the alloc that follows a reset succeeds at an aligned start.
C6_Witness ==
    /\ last.op = "alloc"
    /\ last.after_reset
    /\ last.ok
    /\ last.align > 1
    /\ bump.heap_start > 0
    /\ last.ret = bump.heap_start

\* C17: next does not decrease from one call to the next, except in a dealloc
\* that brings live_count to zero (which sets it back to start); an alloc
\* never lowers next.
C17_HeapMonotonicity ==
    [][ /\ last'.op = "alloc" => bump'.next >= bump.next
        /\ bump'.next < bump.next =>
              /\ last'.op = "dealloc"
              /\ bump'.allocations = 0
              /\ bump'.next = bump'.heap_start ]_vars

\* C17 witness: an alloc moved next further up, after a dealloc that left
\* another block outstanding (so no reset lies between the allocs).
C17_Witness ==
    /\ last.op = "alloc"
    /\ last.ok
    /\ bump.next > last.pre_next
    /\ last.pre_next > bump.heap_start
    /\ bump.allocations >= 2
    /\ \E i \in DOMAIN blocks : ~blocks[i].live

(***************************************************************************)
(* The bump allocator on the 100-byte arena of the worked example.         *)
(***************************************************************************)
\* The arena of the example and the layouts (size, align) its calls use.
ScenarioArena == [heap_start |-> 0, heap_size |-> 100]
ScenarioLayouts == { <<10, 1>>, <<20, 8>>, <<70, 1>>, <<5, 1>> }

InitScenario == HeapNew /\ FramesIdle /\ PagingIdle /\ OthersIdle

\* ALLOCATOR.lock().init(heap_start, heap_size) with the example's arena.
ScenarioInit ==
    /\ ~heap_inited
    /\ bump' = BumpAllocator_init(bump, ScenarioArena.heap_start, ScenarioArena.heap_size)
    /\ heap_inited' = TRUE
    /\ last' = [NoCall EXCEPT !.op = "init", !.pre_next = bump.next,
                              !.pre_allocations = bump.allocations]
    /\ UNCHANGED <<blocks, history, frame_vars, paging_vars, boot_vars, locked_vars,
                   console_vars, kernel_vars, global_vars, print_vars>>

\* A caller allocates with one of the example's layouts; the call is recorded.
ScenarioAlloc ==
    /\ heap_inited
    /\ Len(history) < MaxScenarioCalls
    /\ \E layout \in ScenarioLayouts :
          LET size == layout[1]
              align == layout[2]
              r == alloc(bump, size, align)
              ok == r.bump # bump
          IN  /\ bump' = r.bump
              /\ blocks' = IF ok
                           THEN Append(blocks, [addr |-> r.ptr, size |-> size, live |-> TRUE])
                           ELSE blocks
              /\ last' = [op |-> "alloc", size |-> size, align |-> align,
                          ret |-> r.ptr, ok |-> ok,
                          pre_next |-> bump.next,
                          pre_allocations |-> bump.allocations,
                          after_reset |-> (last.op = "dealloc" /\ bump.allocations = 0)]
              /\ history' = Append(history,
                                [op |-> "alloc", size |-> size, align |-> align,
                                 ret |-> r.ptr, ok |-> ok, next |-> r.bump.next,
                                 allocations |-> r.bump.allocations])
    /\ UNCHANGED <<heap_inited, frame_vars, paging_vars, boot_vars, locked_vars,
                   console_vars, kernel_vars, global_vars, print_vars>>

\* A caller frees a block it still holds; the call is recorded.
ScenarioDealloc ==
    /\ heap_inited
    /\ Len(history) < MaxScenarioCalls
    /\ \E i \in DOMAIN blocks :
          /\ blocks[i].live
          /\ \A j \in DOMAIN blocks : (j < i) => ~blocks[j].live
          /\ bump' = dealloc(bump)
          /\ blocks' = IF bump'.allocations = 0
                       THEN <<>>
                       ELSE [blocks EXCEPT ![i].live = FALSE]
    /\ last' = [NoCall EXCEPT !.op = "dealloc", !.pre_next = bump.next,
                              !.pre_allocations = bump.allocations]
    /\ history' = Append(history,
                      [op |-> "dealloc", size |-> 0, align |-> 0, ret |-> 0, ok |-> TRUE,
                       next |-> bump'.next, allocations |-> bump'.allocations])
    /\ UNCHANGED <<heap_inited, frame_vars, paging_vars, boot_vars, locked_vars,
                   console_vars, kernel_vars, global_vars, print_vars>>

NextScenario == ScenarioInit \/ ScenarioAlloc \/ ScenarioDealloc

SpecScenario == InitScenario /\ [][NextScenario]_vars

(***************************************************************************)
(* The worked example (checked under SpecScenario).                        *)
(***************************************************************************)
\* The calls of the example, in order, and what the example says of each:
\* the returned address, whether the call succeeded, next and live_count.
ScenarioCalls ==
    << [op |-> "alloc", size |-> 10, align |-> 1],
       [op |-> "alloc", size |-> 20, align |-> 8],
       [op |-> "alloc", size |-> 70, align |-> 1],
       [op |-> "dealloc", size |-> 0, align |-> 0],
       [op |-> "dealloc", size |-> 0, align |-> 0],
       [op |-> "alloc", size |-> 5, align |-> 1] >>
ScenarioExpected ==
    << [ret |-> 0, ok |-> TRUE, next |-> 10, allocations |-> 1],
       [ret |-> 16, ok |-> TRUE, next |-> 36, allocations |-> 2],
       [ret |-> null_mut, ok |-> FALSE, next |-> 36, allocations |-> 2],
       [ret |-> 0, ok |-> TRUE, next |-> 36, allocations |-> 1],
       [ret |-> 0, ok |-> TRUE, next |-> 0, allocations |-> 0],
       [ret |-> 0, ok |-> TRUE, next |-> 5, allocations |-> 1] >>

\* The first n recorded calls are the first n calls of the example.
FollowsScenario(n) ==
    /\ n <= Len(history)
    /\ n <= Len(ScenarioCalls)
    /\ \A i \in 1 .. n :
          /\ history[i].op = ScenarioCalls[i].op
          /\ history[i].size = ScenarioCalls[i].size
          /\ history[i].align = ScenarioCalls[i].align

\* C18: on the 100-byte arena at 0, alloc(10, 1) returns 0 (next 10, live 1),
\* alloc(20, 8) returns 16 (next 36, live 2), alloc(70, 1) fails and leaves
\* next 36, live 2, two deallocs take live_count to 1 and to 0 and next to 0,
\* and alloc(5, 1) then returns 0.
C18_Scenario ==
    \A n \in 1 .. Len(ScenarioCalls) :
        FollowsScenario(n) =>
            /\ history[n].ret = ScenarioExpected[n].ret
            /\ history[n].ok = ScenarioExpected[n].ok
            /\ history[n].next = ScenarioExpected[n].next
            /\ history[n].allocations = ScenarioExpected[n].allocations
            /\ n = Len(history) =>
                  /\ bump.next = ScenarioExpected[n].next
                  /\ bump.allocations = ScenarioExpected[n].allocations

\* C18 witness: the six calls of the example have been made, in order.
C18_Witness ==
    /\ FollowsScenario(Len(ScenarioCalls))
    /\ bump.heap_start = ScenarioArena.heap_start
    /\ bump.heap_end = ScenarioArena.heap_start + ScenarioArena.heap_size

(***************************************************************************)
(* The boot-map frame allocator, src/src/memory.rs.                        *)
(***************************************************************************)
\* Size4KiB: the size of a frame and of a page.
PAGE_SIZE == 4096

Usable == "Usable"
RegionTypes == {Usable, "Reserved"}

\* bootloader::bootinfo::MemoryRegion: a range of frame numbers and a type.
MemoryRegion(s, e, t) ==
    [start_frame_number |-> s, end_frame_number |-> e, region_type |-> t]

\* r.range.start_addr() and r.range.end_addr().
start_addr(r) == r.start_frame_number * PAGE_SIZE
end_addr(r) == r.end_frame_number * PAGE_SIZE

\* The memory maps of n regions at or above frame number lo: regions in
\* address order, pairwise disjoint, possibly empty, possibly with gaps.
RECURSIVE MemoryMapsFrom(_, _)
MemoryMapsFrom(lo, n) ==
    IF n = 0
    THEN {<<>>}
    ELSE UNION {
            { <<MemoryRegion(x[1], x[2], x[3])>> \o m : m \in MemoryMapsFrom(x[2], n - 1) } :
                x \in { y \in (lo .. MaxFrameNumber) \X (lo .. MaxFrameNumber) \X RegionTypes :
                            y[1] <= y[2] } }

\* The memory maps the boot loader may hand over.
MemoryMaps == UNION { MemoryMapsFrom(0, n) : n \in 0 .. MaxRegions }

\* (lo..hi).step_by(step): lo, lo + step, ... below hi.
step_by(lo, hi, step) ==
    IF hi <= lo
    THEN <<>>
    ELSE [i \in 1 .. (((hi - lo - 1) \div step) + 1) |-> lo + (i - 1) * step]

\* PhysFrame::containing_address(PhysAddr::new(addr)): the frame, named by its
\* start address, that holds addr.
containing_address(addr) == addr - (addr % PAGE_SIZE)

\* seq.map(f) for f = containing_address.
frames_of(addrs) == [i \in DOMAIN addrs |-> containing_address(addrs[i])]

\* usable_frames without the filter on the region type.
usable_frames_unfiltered(memory_map) ==
    LET RECURSIVE flat(_)
        flat(i) ==
            IF i > Len(memory_map)
            THEN <<>>
            ELSE step_by(start_addr(memory_map[i]), end_addr(memory_map[i]), PAGE_SIZE)
                    \o flat(i + 1)
    IN  frames_of(flat(1))

\* BootInfoFrameAllocator::usable_frames: the iterator, as the sequence it
\* yields.
usable_frames(memory_map) ==
    LET regions == memory_map
        usable_regions == SelectSeq(regions, LAMBDA r : r.region_type = Usable)
        addr_ranges == [i \in DOMAIN usable_regions |->
                          <<start_addr(usable_regions[i]), end_addr(usable_regions[i])>>]
        RECURSIVE flat_map(_)
        flat_map(i) ==
            IF i > Len(addr_ranges)
            THEN <<>>
            ELSE step_by(addr_ranges[i][1], addr_ranges[i][2], PAGE_SIZE)
                    \o flat_map(i + 1)
        frame_addresses == flat_map(1)
    IN  frames_of(frame_addresses)

\* Iterator::nth(n): the element at index n counted from 0, or None.
nth(seq, n) == IF n < Len(seq) THEN seq[n + 1] ELSE None

\* allocate_frame leaving the cursor where it is.
allocate_frame_no_advance(fa) ==
    [frame |-> nth(usable_frames(fa.memory_map), fa.next), fa |-> fa]

\* allocate_frame starting over from the first frame once the sequence is
\* consumed.
allocate_frame_wrapping(fa) ==
    LET frame == nth(usable_frames(fa.memory_map), fa.next)
    IN  [frame |-> frame,
         fa |-> [fa EXCEPT !.next = IF frame = None THEN 0 ELSE @ + 1]]

\* FrameAllocator::allocate_frame: the returned Option<PhysFrame> and the new
\* allocator state.
allocate_frame(fa) ==
    LET frame == nth(usable_frames(fa.memory_map), fa.next)
    IN  [frame |-> frame, fa |-> [fa EXCEPT !.next = @ + 1]]

\* BootInfoFrameAllocator::init(memory_map).
BootInfoFrameAllocator_init(memory_map) == [memory_map |-> memory_map, next |-> 0]

InitFrames ==
    /\ HeapNew
    /\ PagingIdle
    /\ OthersIdle
    /\ \E m \in MemoryMaps : frame_allocator = BootInfoFrameAllocator_init(m)
    /\ frames_out = <<>>

\* A caller asks for a frame.
AllocateFrame ==
    /\ Len(frames_out) < MaxCalls
    /\ LET r == allocate_frame(frame_allocator)
       IN  /\ frame_allocator' = r.fa
           /\ frames_out' = Append(frames_out, r.frame)
    /\ UNCHANGED <<heap_vars, paging_vars, other_vars>>

NextFrames == AllocateFrame

SpecFrames == InitFrames /\ [][NextFrames]_vars

(***************************************************************************)
(* Claims about the frame allocator (checked under SpecFrames).            *)
(***************************************************************************)
\* The frame starting at address f lies inside a usable region of the map.
InUsableRegion(f, memory_map) ==
    \E i \in DOMAIN memory_map :
        /\ memory_map[i].region_type = Usable
        /\ memory_map[i].start_frame_number * PAGE_SIZE <= f
        /\ f + PAGE_SIZE <= memory_map[i].end_frame_number * PAGE_SIZE

C8_ExhaustionPermanent ==
    \A i, j \in DOMAIN frames_out :
        (i < j /\ frames_out[i] = None) => frames_out[j] = None

\* C8 witness: frames were handed out, then the sequence ran out and two
\* further calls returned None.
C8_Witness ==
    /\ Len(frames_out) >= 4
    /\ frames_out[1] # None
    /\ frames_out[2] # None
    /\ frames_out[Len(frames_out) - 1] = None
    /\ frames_out[Len(frames_out)] = None

\* The frame the k-th call (k counted from 0) has to return for the map: the
\* k-th frame when the frames of the usable regions are counted region by
\* region in map order, None when there are fewer.
RECURSIVE kth_usable(_, _, _)
kth_usable(memory_map, i, k) ==
    IF i > Len(memory_map)
    THEN None
    ELSE LET r == memory_map[i]
             n == IF r.region_type = Usable /\ r.end_frame_number > r.start_frame_number
                  THEN r.end_frame_number - r.start_frame_number
                  ELSE 0
         IN  IF k < n
             THEN (r.start_frame_number + k) * PAGE_SIZE
             ELSE kth_usable(memory_map, i + 1, k - n)

\* C21: the k-th allocate_frame call (k from 0) returns the k-th 4096-byte
\* step of the usable regions taken in memory-map order; each call advances
\* the cursor by exactly one, the cursor never decreases, and the memory map
\* is never modified.
C21_FrameSequence ==
    [][/\ frame_allocator.next = Len(frames_out)
       /\ frames_out' = Append(frames_out,
                               kth_usable(frame_allocator.memory_map, 1, Len(frames_out)))
       /\ frame_allocator'.next = frame_allocator.next + 1
       /\ frame_allocator'.memory_map = frame_allocator.memory_map]_vars

\* C21 witness: the map has a usable region, a reserved one and a second
\* usable one; the first region's frames were returned in order, then the
\* first frame of the third region, and the cursor counts the calls.
C21_Witness ==
    /\ Len(frame_allocator.memory_map) = 3
    /\ frame_allocator.memory_map[1].region_type = Usable
    /\ frame_allocator.memory_map[2].region_type # Usable
    /\ frame_allocator.memory_map[3].region_type = Usable
    /\ frame_allocator.memory_map[1].end_frame_number
          = frame_allocator.memory_map[1].start_frame_number + 2
    /\ frame_allocator.memory_map[2].end_frame_number
          > frame_allocator.memory_map[2].start_frame_number
    /\ Len(frames_out) = 3
    /\ frame_allocator.next = 3
    /\ frames_out[1] = start_addr(frame_allocator.memory_map[1])
    /\ frames_out[2] = frames_out[1] + PAGE_SIZE
    /\ frames_out[3] = start_addr(frame_allocator.memory_map[3])

(***************************************************************************)
(* Page tables, the address translator and the page mapper,                *)
(* src/src/memory.rs.                                                      *)
(***************************************************************************)
\* A page table has ENTRY_COUNT entries.
ENTRY_COUNT == 2 ^ IndexBits

PRESENT == "PRESENT"
WRITABLE == "WRITABLE"
HUGE_PAGE == "HUGE_PAGE"

\* A page table entry: a frame address and flags.  The unused entry is 0.
PageTableEntry(addr, flags) == [addr |-> addr, flags |-> flags]
UnusedEntry == PageTableEntry(0, {})
is_unused(entry) == entry = UnusedEntry

\* PageTable::new() / zero(): every entry unused.
EmptyTable == [i \in 0 .. (ENTRY_COUNT - 1) |-> UnusedEntry]

\* VirtAddr::p4_index .. p1_index and page_offset.
p1_index(addr) == (addr \div PAGE_SIZE) % ENTRY_COUNT
p2_index(addr) == (addr \div (PAGE_SIZE * ENTRY_COUNT)) % ENTRY_COUNT
p3_index(addr) == (addr \div (PAGE_SIZE * ENTRY_COUNT * ENTRY_COUNT)) % ENTRY_COUNT
p4_index(addr) ==
    (addr \div (PAGE_SIZE * ENTRY_COUNT * ENTRY_COUNT * ENTRY_COUNT)) % ENTRY_COUNT
page_offset(addr) == addr % PAGE_SIZE

\* The start address of the page with the given four table indices.
PageAt(i4, i3, i2, i1) ==
    (((i4 * ENTRY_COUNT + i3) * ENTRY_COUNT + i2) * ENTRY_COUNT + i1) * PAGE_SIZE

\* PageTableEntry::frame() looking at the huge-page flag before the present
\* flag.
entry_frame_huge_first(entry) ==
    IF HUGE_PAGE \in entry.flags
    THEN [err |-> "HugeFrame", frame |-> 0]
    ELSE IF PRESENT \notin entry.flags
         THEN [err |-> "FrameNotPresent", frame |-> 0]
         ELSE [err |-> "Ok", frame |-> containing_address(entry.addr)]

\* PageTableEntry::frame().
entry_frame(entry) ==
    IF PRESENT \notin entry.flags
    THEN [err |-> "FrameNotPresent", frame |-> 0]
    ELSE IF HUGE_PAGE \in entry.flags
         THEN [err |-> "HugeFrame", frame |-> 0]
         ELSE [err |-> "Ok", frame |-> containing_address(entry.addr)]

\* The frame of the example mapping, 0xb8000.
VGA_BUFFER == 753664

\* Physical memory at boot: frame 0 is left alone, frames 1..4 hold the page
\* tables the boot loader built, the usable frames follow them.
L4Frame == 1 * PAGE_SIZE
BootL3 == 2 * PAGE_SIZE
BootL2 == 3 * PAGE_SIZE
BootL1 == 4 * PAGE_SIZE

\* Cr3::read(): the frame of the active level 4 table.
Cr3_read == L4Frame

\* boot_info.physical_memory_offset: all physical memory is mapped at this
\* virtual address (the upper half of the address space).
physical_memory_offset == PageAt(ENTRY_COUNT \div 2, 0, 0, 0)

\* The boot loader's page tables.  Page (0,0,0,0) is mapped to the VGA frame;
\* (0,0,1,*) is a huge page; entries that are not present but still hold an
\* address sit at every level: L4[3], L3[1], L2[2], L1[1].
BootTables ==
    (L4Frame :> [EmptyTable EXCEPT
                    ![0] = PageTableEntry(BootL3, {PRESENT, WRITABLE}),
                    ![3] = PageTableEntry(BootL3, {WRITABLE})])
    @@ (BootL3 :> [EmptyTable EXCEPT
                    ![0] = PageTableEntry(BootL2, {PRESENT, WRITABLE}),
                    ![1] = PageTableEntry(BootL2, {WRITABLE})])
    @@ (BootL2 :> [EmptyTable EXCEPT
                    ![0] = PageTableEntry(BootL1, {PRESENT, WRITABLE}),
                    ![1] = PageTableEntry(0, {PRESENT, WRITABLE, HUGE_PAGE}),
                    ![2] = PageTableEntry(BootL1, {})])
    @@ (BootL1 :> [EmptyTable EXCEPT
                    ![0] = PageTableEntry(VGA_BUFFER, {PRESENT, WRITABLE}),
                    ![1] = PageTableEntry(VGA_BUFFER, {WRITABLE}),
                    ![2] = PageTableEntry(VGA_BUFFER, {HUGE_PAGE})])

\* The number of frames in use at boot: frame 0 and the boot tables.
BootFrames == 1 + Cardinality(DOMAIN BootTables)

\* The memory map that goes with the boot tables, with k usable frames.
PagingMemoryMap(k) ==
    << MemoryRegion(0, BootFrames, "Reserved"),
       MemoryRegion(BootFrames, BootFrames + k, Usable) >>

\* The pages handed to the page mapper: fresh ones that need three, no or
\* two new tables, one the boot loader already mapped, one in a free slot of
\* a boot table.
MapPages ==
    { PageAt(1, 0, 0, 0), PageAt(1, 0, 0, 1), PageAt(1, 1, 0, 0),
      PageAt(0, 0, 0, 0), PageAt(0, 0, 0, 3) }

\* The offsets within a page that translations are asked for.
Offsets == {0, 1, PAGE_SIZE - 1}

\* The addresses translations are asked for: the mapper's pages, the pages
\* whose walk meets one of the boot tables' not-present entries, the huge
\* page and a page with no entry at all.
ProbePages ==
    MapPages \cup
    { PageAt(3, 0, 0, 0), PageAt(0, 1, 0, 0), PageAt(0, 0, 2, 0),
      PageAt(0, 0, 0, 1), PageAt(0, 0, 0, 2), PageAt(0, 0, 1, 0),
      PageAt(1, 2, 3, 0) }
ProbeAddrs == { page + o : page \in ProbePages, o \in Offsets }

\* *table_ptr for table_ptr = virt.as_ptr(): the table stored at virtual
\* address virt, which the offset mapping places at physical address
\* virt - physical_memory_offset.  A frame that holds no table reads as
\* an empty one (no reachable state reads such a frame).
table_at(tb, virt, offset) ==
    IF (virt - offset) \in DOMAIN tb THEN tb[virt - offset] ELSE EmptyTable

SomeAddr(a) == [tag |-> "Some", value |-> a]
NoneAddr == [tag |-> "None", value |-> 0]
Panic == [tag |-> "panic", value |-> 0]

\* translate_addr_inner following an entry's address whatever its flags.
translate_addr_inner_unchecked(tb, addr, offset) ==
    LET table_indexes == <<p4_index(addr), p3_index(addr), p2_index(addr), p1_index(addr)>>
        RECURSIVE walk(_, _)
        walk(frame, i) ==
            IF i > 4
            THEN SomeAddr(frame + page_offset(addr))
            ELSE walk(containing_address(
                        table_at(tb, offset + frame, offset)[table_indexes[i]].addr),
                      i + 1)
    IN  walk(Cr3_read, 1)

\* translate_addr_inner returning the frame's start address.
translate_addr_inner_no_offset(tb, addr, offset) ==
    LET table_indexes == <<p4_index(addr), p3_index(addr), p2_index(addr), p1_index(addr)>>
        RECURSIVE walk(_, _)
        walk(frame, i) ==
            IF i > 4
            THEN SomeAddr(frame)
            ELSE LET entry == table_at(tb, offset + frame, offset)[table_indexes[i]]
                     f == entry_frame(entry)
                 IN  CASE f.err = "Ok" -> walk(f.frame, i + 1)
                       [] f.err = "FrameNotPresent" -> NoneAddr
                       [] f.err = "HugeFrame" -> Panic
    IN  walk(Cr3_read, 1)

\* translate_addr_inner(addr, physical_memory_offset) on the page tables tb:
\* Some(physical address), None, or a panic.
translate_addr_inner(tb, addr, offset) ==
    LET level_4_table_frame == Cr3_read
        table_indexes == <<p4_index(addr), p3_index(addr), p2_index(addr), p1_index(addr)>>
        RECURSIVE walk(_, _)
        walk(frame, i) ==
            IF i > 4
            THEN SomeAddr(frame + page_offset(addr))
            ELSE LET virt == offset + frame
                     table == table_at(tb, virt, offset)
                     entry == table[table_indexes[i]]
                     f == entry_frame(entry)
                 IN  CASE f.err = "Ok" -> walk(f.frame, i + 1)
                       [] f.err = "FrameNotPresent" -> NoneAddr
                       [] f.err = "HugeFrame" -> Panic
    IN  walk(level_4_table_frame, 1)

\* translate_addr(addr, physical_memory_offset).
translate_addr(tb, addr, offset) == translate_addr_inner(tb, addr, offset)

\* The step down one level that sets up a new table and leaves the parent's
\* entry as it was.
create_next_table_unlinked(tb, fa, table_frame, index, insert_flags) ==
    LET entry == tb[table_frame][index]
    IN  IF is_unused(entry)
        THEN CHOOSE out \in
                { IF a.frame = None
                  THEN [err |-> "FrameAllocationFailed", tables |-> tb, fa |-> a.fa,
                        table |-> 0]
                  ELSE [err |-> "Ok",
                        tables |-> (a.frame :> EmptyTable) @@ tb,
                        fa |-> a.fa, table |-> a.frame] :
                  a \in {allocate_frame(fa)} } : TRUE
        ELSE [err |-> "Ok", tables |-> tb, fa |-> fa,
              table |-> entry_frame(entry).frame]

\* The page mapper's step down one level: the table the entry at `index` of
\* the table in `table_frame` points to, created from a frame of the frame
\* allocator when the entry is unused.  (A value bound by x \in {v} is
\* computed once.)
create_next_table(tb, fa, table_frame, index, insert_flags) ==
    LET entry == tb[table_frame][index]
    IN  IF is_unused(entry)
        THEN CHOOSE out \in
                { IF a.frame = None
                  THEN [err |-> "FrameAllocationFailed", tables |-> tb, fa |-> a.fa,
                        table |-> 0]
                  ELSE [err |-> "Ok",
                        tables |-> (a.frame :> EmptyTable)
                                   @@ [tb EXCEPT ![table_frame][index] =
                                          PageTableEntry(a.frame, insert_flags)],
                        fa |-> a.fa, table |-> a.frame] :
                  a \in {allocate_frame(fa)} } : TRUE
        ELSE [err |-> "Ok", tables |-> tb, fa |-> fa,
              table |-> entry_frame(entry).frame]

\* A failed step of map_to: the error, and the state the step left.
MapToError(r) == [err |-> r.err, tables |-> r.tables, fa |-> r.fa]

\* map_to once the level 1 table p1 is at hand: the leaf entry is written
\* unless it is in use.
map_to_p1(p1, page, frame, flags) ==
    IF p1.err # "Ok" THEN MapToError(p1)
    ELSE IF ~is_unused(p1.tables[p1.table][p1_index(page)])
         THEN [err |-> "PageAlreadyMapped", tables |-> p1.tables, fa |-> p1.fa]
         ELSE [err |-> "Ok",
               tables |-> [p1.tables EXCEPT ![p1.table][p1_index(page)] =
                              PageTableEntry(frame, flags)],
               fa |-> p1.fa]

\* map_to once the level 2 table p2 is at hand.
map_to_p2(p2, page, frame, flags) ==
    IF p2.err # "Ok" THEN MapToError(p2)
    ELSE CHOOSE out \in
            { map_to_p1(p1, page, frame, flags) :
              p1 \in {create_next_table(p2.tables, p2.fa, p2.table, p2_index(page),
                                        {PRESENT, WRITABLE})} } : TRUE

\* map_to once the level 3 table p3 is at hand.
map_to_p3(p3, page, frame, flags) ==
    IF p3.err # "Ok" THEN MapToError(p3)
    ELSE CHOOSE out \in
            { map_to_p2(p2, page, frame, flags) :
              p2 \in {create_next_table(p3.tables, p3.fa, p3.table, p3_index(page),
                                        {PRESENT, WRITABLE})} } : TRUE

\* mapper.map_to(page, frame, flags, frame_allocator): the result, the page
\* tables and the frame allocator after the call.
map_to(tb, fa, page, frame, flags) ==
    CHOOSE out \in
        { map_to_p3(p3, page, frame, flags) :
          p3 \in {create_next_table(tb, fa, Cr3_read, p4_index(page),
                                    {PRESENT, WRITABLE})} } : TRUE

\* create_example_mapping(page, mapper, frame_allocator): Ok, or the error
\* that `expect` panics on.
create_example_mapping(tb, fa, page) ==
    LET frame == containing_address(VGA_BUFFER)
        flags == {PRESENT, WRITABLE}
    IN  map_to(tb, fa, page, frame, flags)

\* init_heap's loop body dropping the result of map_to instead of returning
\* its error.
init_heap_map_ignore_error(tb, a, page) ==
    IF a.frame = None
    THEN [err |-> "FrameAllocationFailed", tables |-> tb, fa |-> a.fa, frame |-> 0]
    ELSE CHOOSE out \in
            { [err |-> "Ok", tables |-> r.tables, fa |-> r.fa, frame |-> a.frame] :
              r \in {map_to(tb, a.fa, page, a.frame, {PRESENT, WRITABLE})} } : TRUE

\* init_heap's loop body once allocate_frame has returned a: the error of a
\* missing frame, or the result of map_to.
init_heap_map(tb, a, page) ==
    IF a.frame = None
    THEN [err |-> "FrameAllocationFailed", tables |-> tb, fa |-> a.fa, frame |-> 0]
    ELSE CHOOSE out \in
            { [err |-> r.err, tables |-> r.tables, fa |-> r.fa, frame |-> a.frame] :
              r \in {map_to(tb, a.fa, page, a.frame, {PRESENT, WRITABLE})} } : TRUE

\* One round of init_heap's loop, for `page`: a frame from the frame
\* allocator, mapped present and writable.
init_heap_page(tb, fa, page) ==
    CHOOSE out \in { init_heap_map(tb, a, page) : a \in {allocate_frame(fa)} } : TRUE

InitPaging ==
    /\ HeapNew
    /\ OthersIdle
    /\ tables = BootTables
    /\ \E k \in 0 .. MaxUsable :
          frame_allocator = BootInfoFrameAllocator_init(PagingMemoryMap(k))
    /\ frames_out = <<>>
    /\ mapped = <<>>
    /\ pt_last = [op |-> "none", addr |-> 0, tag |-> "none", value |-> 0]
    /\ halted = FALSE

\* kernel code calls create_example_mapping; a failed map_to panics.
CreateExampleMapping ==
    /\ ~halted
    /\ frame_allocator.next <= Len(usable_frames(frame_allocator.memory_map))
    /\ \E page \in MapPages :
          \E r \in {create_example_mapping(tables, frame_allocator, page)} :
              /\ tables' = r.tables
              /\ frame_allocator' = r.fa
              /\ mapped' = IF r.err = "Ok"
                           THEN (page :> containing_address(VGA_BUFFER)) @@ mapped
                           ELSE mapped
              /\ halted' = (r.err # "Ok")
              /\ pt_last' = [op |-> "create_example_mapping", addr |-> page,
                             tag |-> r.err, value |-> 0]
    /\ UNCHANGED <<heap_vars, frames_out, other_vars>>

\* init_heap maps one page of its range; an error is returned to the caller.
InitHeapPage ==
    /\ ~halted
    /\ frame_allocator.next <= Len(usable_frames(frame_allocator.memory_map))
    /\ \E page \in MapPages :
          \E r \in {init_heap_page(tables, frame_allocator, page)} :
              /\ tables' = r.tables
              /\ frame_allocator' = r.fa
              /\ mapped' = IF r.err = "Ok" THEN (page :> r.frame) @@ mapped ELSE mapped
              /\ pt_last' = [op |-> "init_heap", addr |-> page, tag |-> r.err,
                             value |-> r.frame]
    /\ UNCHANGED <<heap_vars, frames_out, halted, other_vars>>

\* kernel code asks for a translation; a huge page entry panics.
TranslateAddr ==
    /\ ~halted
    /\ \E addr \in ProbeAddrs :
          \E r \in {translate_addr(tables, addr, physical_memory_offset)} :
              /\ pt_last' = [op |-> "translate_addr", addr |-> addr, tag |-> r.tag,
                             value |-> r.value]
              /\ halted' = (r = Panic)
    /\ UNCHANGED <<heap_vars, frame_vars, tables, mapped, other_vars>>

NextPaging == CreateExampleMapping \/ InitHeapPage \/ TranslateAddr

SpecPaging == InitPaging /\ [][NextPaging]_vars

(***************************************************************************)
(* Claims about translation and mapping (checked under SpecPaging).        *)
(***************************************************************************)
\* C9: for every page mapped through the page mapper to frame F and every
\* offset O within the page, translate(page.start + O) is F.start + O.
C9_RoundTrip ==
    \A page \in DOMAIN mapped : \A o \in Offsets :
        translate_addr(tables, page + o, physical_memory_offset)
            = SomeAddr(mapped[page] + o)

\* C9 witness: two pages are mapped, and the last call translated an address
\* with a non-zero offset inside a page that init_heap's loop mapped to a
\* frame of the frame allocator.
C9_Witness ==
    /\ pt_last.op = "translate_addr"
    /\ pt_last.tag = "Some"
    /\ page_offset(pt_last.addr) > 0
    /\ Cardinality(DOMAIN mapped) >= 2
    /\ (pt_last.addr - page_offset(pt_last.addr)) \in DOMAIN mapped
    /\ mapped[pt_last.addr - page_offset(pt_last.addr)] # containing_address(VGA_BUFFER)
    /\ pt_last.value = mapped[pt_last.addr - page_offset(pt_last.addr)]
                          + page_offset(pt_last.addr)

\* The level (4 = L4 .. 1 = L1) at which the walk for addr meets a
\* not-present entry, having passed only present entries that are not huge
\* pages on the way; 0 when it meets none.
NotPresentAt(addr) ==
    LET e4 == tables[Cr3_read][p4_index(addr)]
    IN  IF PRESENT \notin e4.flags THEN 4
        ELSE IF HUGE_PAGE \in e4.flags THEN 0
        ELSE LET e3 == tables[e4.addr][p3_index(addr)]
             IN  IF PRESENT \notin e3.flags THEN 3
                 ELSE IF HUGE_PAGE \in e3.flags THEN 0
                 ELSE LET e2 == tables[e3.addr][p2_index(addr)]
                      IN  IF PRESENT \notin e2.flags THEN 2
                          ELSE IF HUGE_PAGE \in e2.flags THEN 0
                          ELSE LET e1 == tables[e2.addr][p1_index(addr)]
                               IN  IF PRESENT \notin e1.flags THEN 1 ELSE 0

\* C10: translate returns none for every address whose walk meets a
\* not-present entry at L4, L3, L2 or L1, whatever address that entry holds.
C10_UnmappedLookup ==
    \A addr \in ProbeAddrs :
        NotPresentAt(addr) # 0
            => translate_addr(tables, addr, physical_memory_offset) = NoneAddr

\* C10 witness: the last call translated, to none, an address whose walk
\* passes three present tables and meets at L1 a not-present entry that
\* still holds a frame address; other addresses meet their not-present entry
\* at L4, at L3 and at L2, one of them in a table that a map request created
\* before it ran out of frames.
C10_Witness ==
    /\ pt_last.op = "translate_addr"
    /\ pt_last.tag = "None"
    /\ NotPresentAt(pt_last.addr) = 1
    /\ tables[BootL1][p1_index(pt_last.addr)].addr # 0
    /\ p4_index(pt_last.addr) = 0
    /\ \A level \in 2 .. 4 : \E a \in ProbeAddrs : NotPresentAt(a) = level
    /\ \E a \in ProbeAddrs :
          /\ NotPresentAt(a) \in {2, 3}
          /\ p4_index(a) # 0
          /\ tables[Cr3_read][p4_index(a)].addr >= BootFrames * PAGE_SIZE

\* The level 1 entry the walk for `page` ends at, in the page tables tb (for
\* a page whose three upper entries are present).
LeafEntry(tb, page) ==
    LET e4 == tb[Cr3_read][p4_index(page)]
        e3 == tb[e4.addr][p3_index(page)]
        e2 == tb[e3.addr][p2_index(page)]
    IN  tb[e2.addr][p1_index(page)]

\* The step called map_to for `page`: create_example_mapping always does,
\* init_heap's loop does once the frame allocator has supplied the frame
\* (recorded as the call's value; no frame has address 0).
MapRequested(page) ==
    /\ pt_last'.addr = page
    /\ \/ pt_last'.op = "create_example_mapping"
       \/ pt_last'.op = "init_heap" /\ pt_last'.value # 0

\* C11: a map request (from create_example_mapping or from init_heap's loop)
\* for a page that already has a leaf mapping reports PageAlreadyMapped and
\* leaves the page's entry, frame and flags, as it was; create_example_mapping
\* panics on the report.
C11_MappingCollision ==
    [][ \A page \in MapPages :
          (/\ MapRequested(page)
           /\ translate_addr(tables, page, physical_memory_offset).tag = "Some")
          => /\ pt_last'.tag = "PageAlreadyMapped"
             /\ LeafEntry(tables', page) = LeafEntry(tables, page)
             /\ translate_addr(tables', page, physical_memory_offset)
                   = translate_addr(tables, page, physical_memory_offset)
             /\ pt_last'.op = "create_example_mapping" => halted' ]_vars

\* C11 witness: init_heap's loop asked to map, to a fresh frame, a page that
\* the page mapper had mapped before; the request was refused and the page
\* still translates to its first frame.
C11_Witness ==
    /\ pt_last.op = "init_heap"
    /\ pt_last.tag = "PageAlreadyMapped"
    /\ pt_last.addr \in DOMAIN mapped
    /\ pt_last.value # mapped[pt_last.addr]
    /\ pt_last.value # 0
    /\ translate_addr(tables, pt_last.addr, physical_memory_offset)
          = SomeAddr(mapped[pt_last.addr])

\* The entry the four-level walk for addr looks at on level i (1 is the level
\* 4 table, 4 the level 1 table), following the addresses of the entries
\* above it.
RECURSIVE walk_entry(_, _, _)
walk_entry(tb, addr, i) ==
    LET index == <<p4_index(addr), p3_index(addr), p2_index(addr), p1_index(addr)>>[i]
        frame == IF i = 1
                 THEN Cr3_read
                 ELSE containing_address(walk_entry(tb, addr, i - 1).addr)
    IN  table_at(tb, physical_memory_offset + frame, physical_memory_offset)[index]

\* The walk for addr gets as far as level i: every entry above is present
\* and is no huge page.
WalkReaches(tb, addr, i) ==
    \A j \in 1 .. (i - 1) :
        /\ PRESENT \in walk_entry(tb, addr, j).flags
        /\ HUGE_PAGE \notin walk_entry(tb, addr, j).flags

\* C23: when the four-level walk of a translation reaches a present entry
\* that carries the huge-page flag, the translation panics, the kernel halts
\* and no physical address is returned; when it reaches an entry that is not
\* present, the address is reported unmapped (None) without a panic, also
\* when that entry carries the huge-page flag.
C23_HugePageFatal ==
    pt_last.op = "translate_addr" =>
        \A i \in 1 .. 4 :
            WalkReaches(tables, pt_last.addr, i) =>
                LET entry == walk_entry(tables, pt_last.addr, i)
                IN  /\ (PRESENT \in entry.flags /\ HUGE_PAGE \in entry.flags)
                          => (pt_last.tag = "panic" /\ halted)
                    /\ PRESENT \notin entry.flags
                          => (pt_last.tag = "None" /\ ~halted)

\* C23 witness: after a page was mapped, a translation met the present
\* huge-page entry of the level 2 boot table and halted the kernel.
C23_Witness ==
    /\ pt_last.op = "translate_addr"
    /\ pt_last.tag = "panic"
    /\ halted
    /\ mapped # <<>>
    /\ WalkReaches(tables, pt_last.addr, 3)
    /\ walk_entry(tables, pt_last.addr, 3).flags = {PRESENT, WRITABLE, HUGE_PAGE}

\* The number of intermediate tables (level 3, 2, 1) the walk for `page` lacks
\* in the page tables tb, and whether the first entry it stops at is unused.
MissingTables(tb, page) ==
    Cardinality({ i \in 1 .. 3 : ~WalkReaches(tb, page, i + 1) })
StopsAtUnused(tb, page) ==
    \E i \in 1 .. 3 : WalkReaches(tb, page, i) /\ is_unused(walk_entry(tb, page, i))

\* The number of frames the frame allocator can still hand out.
FramesLeft(fa) ==
    IF fa.next < Len(usable_frames(fa.memory_map))
    THEN Len(usable_frames(fa.memory_map)) - fa.next
    ELSE 0

\* C24: a map request (from create_example_mapping, or from init_heap's loop
\* after it got the page's frame) for a page that lacks intermediate tables,
\* made when the frame allocator has fewer frames left than tables are
\* lacking, reports FrameAllocationFailed and installs no leaf mapping (the
\* page still translates to None); the tables that were there stay, every
\* frame that was left has become a table linked into the walk for the page,
\* and those frames lie behind the cursor, which is not moved back.
C24_OutOfFramesDuringMap ==
    [][ \A page \in MapPages :
          LET missing == MissingTables(tables, page)
              left == FramesLeft(frame_allocator)
                         - (IF pt_last'.op = "init_heap" THEN 1 ELSE 0)
              created == DOMAIN tables' \ DOMAIN tables
          IN  (/\ MapRequested(page)
               /\ StopsAtUnused(tables, page)
               /\ left < missing)
              => /\ pt_last'.tag = "FrameAllocationFailed"
                 /\ translate_addr(tables', page, physical_memory_offset) = NoneAddr
                 /\ DOMAIN tables \subseteq DOMAIN tables'
                 /\ Cardinality(created) = left
                 /\ MissingTables(tables', page) = missing - left
                 /\ \A i \in 1 .. 3 :
                       (WalkReaches(tables', page, i + 1) /\ ~WalkReaches(tables, page, i + 1))
                           => walk_entry(tables', page, i).addr \in created
                 /\ frame_allocator'.next > frame_allocator.next + left
                 /\ \A f \in created :
                       \E j \in 1 .. frame_allocator'.next :
                           /\ j <= Len(usable_frames(frame_allocator.memory_map))
                           /\ usable_frames(frame_allocator.memory_map)[j] = f ]_vars

\* C24 witness: the first map request, for a page that lacked all three
\* tables, was made with two frames left: it failed, the level 3 and level 2
\* tables it created are linked, the level 1 table is missing and the page
\* does not translate.
C24_Witness ==
    /\ pt_last.op = "create_example_mapping"
    /\ pt_last.tag = "FrameAllocationFailed"
    /\ mapped = <<>>
    /\ Cardinality(DOMAIN tables \ DOMAIN BootTables) = 2
    /\ WalkReaches(tables, pt_last.addr, 3)
    /\ is_unused(walk_entry(tables, pt_last.addr, 3))
    /\ walk_entry(tables, pt_last.addr, 2).addr \notin DOMAIN BootTables
    /\ translate_addr(tables, pt_last.addr, physical_memory_offset) = NoneAddr
    /\ frame_allocator.next = 3

(***************************************************************************)
(* The heap bootstrap, init_heap, src/src/allocator.rs.                    *)
(***************************************************************************)
\* HEAP_START = 0x7777_7777_7777 lies 0x777 bytes into its page.
HEAP_START_OFFSET == 1911

\* The values HEAP_START and HEAP_SIZE take here: a start on a page boundary
\* and one inside a page; sizes that end inside the first page, at its end,
\* one byte into the next page, and further.
HEAP_START_values == { PageAt(1, 0, 0, 0), PageAt(1, 0, 0, 0) + HEAP_START_OFFSET }
HEAP_SIZE_values ==
    { 1, PAGE_SIZE - HEAP_START_OFFSET, PAGE_SIZE - HEAP_START_OFFSET + 1,
      PAGE_SIZE, PAGE_SIZE + 1 }

\* Page::containing_address(addr): the page, named by its start address.
Page_containing_address(addr) == addr - (addr % PAGE_SIZE)

\* Page::range_inclusive(start, end): the pages the loop iterates over.
range_inclusive(start_page, end_page) == step_by(start_page, end_page + 1, PAGE_SIZE)

\* The page range ending before the page of the last heap byte.
page_range_exclusive(start, size) ==
    LET heap_start == start
        heap_end == heap_start + size - 1
        heap_start_page == Page_containing_address(heap_start)
        heap_end_page == Page_containing_address(heap_end)
    IN  step_by(heap_start_page, heap_end_page, PAGE_SIZE)

\* init_heap's page_range for HEAP_START = start, HEAP_SIZE = size.
page_range(start, size) ==
    LET heap_start == start
        heap_end == heap_start + size - 1
        heap_start_page == Page_containing_address(heap_start)
        heap_end_page == Page_containing_address(heap_end)
    IN  range_inclusive(heap_start_page, heap_end_page)

\* init_heap's loop from the i-th page of the range on: it ends at the first
\* error (`failed` is the index of the page it ended at, 0 when none) or
\* after the last page; frames are the frames mapped so far.
RECURSIVE init_heap_loop(_, _, _, _, _)
init_heap_loop(tb, fa, pages, i, frames) ==
    IF i > Len(pages)
    THEN [err |-> "Ok", tables |-> tb, fa |-> fa, frames |-> frames, failed |-> 0]
    ELSE CHOOSE out \in
            { IF r.err # "Ok"
              THEN [err |-> r.err, tables |-> r.tables, fa |-> r.fa, frames |-> frames,
                    failed |-> i]
              ELSE init_heap_loop(r.tables, r.fa, pages, i + 1, Append(frames, r.frame)) :
              r \in {init_heap_page(tb, fa, pages[i])} } : TRUE

\* The end of init_heap initialising the allocator whatever the loop returned.
init_heap_finish_always(r, b, start, size) ==
    [bump |-> BumpAllocator_init(b, start, size), inited |-> TRUE]

\* The end of init_heap: after an error of the loop (returned by `?`) the
\* allocator is not touched; otherwise ALLOCATOR.lock().init(start, size).
init_heap_finish(r, b, start, size) ==
    IF r.err # "Ok"
    THEN [bump |-> b, inited |-> FALSE]
    ELSE [bump |-> BumpAllocator_init(b, start, size), inited |-> TRUE]

\* init_heap(mapper, frame_allocator) with HEAP_START = start and
\* HEAP_SIZE = size: the result, the page tables, the frame allocator and
\* the heap allocator after the call.
init_heap(tb, fa, b, start, size) ==
    CHOOSE out \in
        { [err |-> r.err, tables |-> r.tables, fa |-> r.fa, frames |-> r.frames,
           failed |-> r.failed, pages |-> page_range(start, size),
           bump |-> init_heap_finish(r, b, start, size).bump,
           inited |-> init_heap_finish(r, b, start, size).inited] :
          r \in {init_heap_loop(tb, fa, page_range(start, size), 1, <<>>)} } : TRUE

InitHeapBoot == InitPaging

\* The kernel calls init_heap, once.
InitHeap ==
    /\ ~halted
    /\ ~init_heap_result.called
    /\ \E start \in HEAP_START_values, size \in HEAP_SIZE_values :
          \E r \in {init_heap(tables, frame_allocator, bump, start, size)} :
              /\ tables' = r.tables
              /\ frame_allocator' = r.fa
              /\ bump' = r.bump
              /\ heap_inited' = r.inited
              /\ mapped' = [page \in {r.pages[i] : i \in DOMAIN r.frames} |->
                              r.frames[CHOOSE i \in DOMAIN r.frames : r.pages[i] = page]]
                            @@ mapped
              /\ init_heap_result' =
                    [called |-> TRUE, start |-> start, size |-> size, err |-> r.err,
                     pages |-> r.pages, frames |-> r.frames, failed |-> r.failed,
                     second |-> "none", second_failed |-> 0, second_init |-> FALSE]
    /\ UNCHANGED <<blocks, last, frames_out, pt_last, halted, scenario_vars, locked_vars,
                   console_vars, kernel_vars, global_vars, print_vars>>

\* The kernel calls init_heap a second time after the first call returned Ok
\* (HEAP_START and HEAP_SIZE are the same constants).  `second` is what the
\* call returns, second_failed the index of the page its loop ended at,
\* second_init whether it reached ALLOCATOR.lock().init.
InitHeapAgain ==
    /\ ~halted
    /\ init_heap_result.called
    /\ init_heap_result.err = "Ok"
    /\ init_heap_result.second = "none"
    /\ \E r \in {init_heap(tables, frame_allocator, bump, init_heap_result.start,
                            init_heap_result.size)} :
          /\ tables' = r.tables
          /\ frame_allocator' = r.fa
          /\ bump' = r.bump
          /\ heap_inited' = (heap_inited \/ r.inited)
          /\ mapped' = [page \in {r.pages[i] : i \in DOMAIN r.frames} |->
                          r.frames[CHOOSE i \in DOMAIN r.frames : r.pages[i] = page]]
                        @@ mapped
          /\ init_heap_result' = [init_heap_result EXCEPT !.second = r.err,
                                                          !.second_failed = r.failed,
                                                          !.second_init = r.inited]
    /\ UNCHANGED <<blocks, last, frames_out, pt_last, halted, scenario_vars, locked_vars,
                   console_vars, kernel_vars, global_vars, print_vars>>

\* A caller allocates after init_heap has failed: the heap allocator is not
\* initialised.
AllocBeforeInit ==
    /\ ~halted
    /\ init_heap_result.called
    /\ ~heap_inited
    /\ Alloc

NextHeapBoot == CreateExampleMapping \/ InitHeap \/ InitHeapAgain \/ AllocBeforeInit

SpecHeapBoot == InitHeapBoot /\ [][NextHeapBoot]_vars

(***************************************************************************)
(* Claims about the heap bootstrap (checked under SpecHeapBoot).           *)
(***************************************************************************)
\* The start address of the page that holds addr.
PageOf(addr) == (addr \div PAGE_SIZE) * PAGE_SIZE

\* The pages from the one holding start to the one holding start + size - 1.
HeapPages(start, size) ==
    { PageOf(start) + k * PAGE_SIZE :
        k \in 0 .. ((PageOf(start + size - 1) - PageOf(start)) \div PAGE_SIZE) }

\* The frames the frame allocator has handed out so far.
FramesSupplied ==
    { usable_frames(frame_allocator.memory_map)[i] :
        i \in { j \in DOMAIN usable_frames(frame_allocator.memory_map) :
                  j <= frame_allocator.next } }

\* C12: when init_heap returned Ok, every page from the one holding start to
\* the one holding start + size - 1 is mapped present and writable to a frame
\* the frame allocator supplied, so that every address of [start, start+size)
\* translates, also for a start inside a page; and the heap allocator's arena
\* is exactly [start, start + size).
C12_HeapCoverage ==
    (init_heap_result.called /\ init_heap_result.err = "Ok") =>
        /\ \A page \in HeapPages(init_heap_result.start, init_heap_result.size) :
              /\ translate_addr(tables, page, physical_memory_offset).tag = "Some"
              /\ PRESENT \in LeafEntry(tables, page).flags
              /\ WRITABLE \in LeafEntry(tables, page).flags
              /\ LeafEntry(tables, page).addr \in FramesSupplied
              /\ \A o \in Offsets :
                    translate_addr(tables, page + o, physical_memory_offset)
                        = SomeAddr(LeafEntry(tables, page).addr + o)
        /\ \A addr \in { init_heap_result.start,
                          init_heap_result.start + init_heap_result.size - 1 } :
              translate_addr(tables, addr, physical_memory_offset).tag = "Some"
        /\ heap_inited
        /\ bump.heap_start = init_heap_result.start
        /\ bump.heap_end = init_heap_result.start + init_heap_result.size
        /\ bump.next = init_heap_result.start

\* C12 witness: init_heap returned Ok for a start inside a page and a size
\* that reaches into the next page.
C12_Witness ==
    /\ init_heap_result.called
    /\ init_heap_result.err = "Ok"
    /\ init_heap_result.start % PAGE_SIZE # 0
    /\ Cardinality(HeapPages(init_heap_result.start, init_heap_result.size)) = 2
    /\ init_heap_result.size <= PAGE_SIZE

\* C13: when a frame allocation or a page mapping failed for a page of the
\* range, init_heap returned that error, mapped no page from that one on, and
\* left the heap allocator as constructed: its arena is empty and every
\* allocation fails.
C13_HeapBootFailure ==
    (init_heap_result.called /\ init_heap_result.err # "Ok") =>
        /\ init_heap_result.err \in {"FrameAllocationFailed", "PageAlreadyMapped"}
        /\ init_heap_result.failed \in DOMAIN init_heap_result.pages
        /\ \A i \in DOMAIN init_heap_result.pages :
              i >= init_heap_result.failed =>
                  \/ translate_addr(tables, init_heap_result.pages[i],
                                    physical_memory_offset) = NoneAddr
                  \/ /\ init_heap_result.pages[i] \in DOMAIN mapped
                     /\ mapped[init_heap_result.pages[i]] = containing_address(VGA_BUFFER)
        /\ ~heap_inited
        /\ bump = BumpAllocator_new
        /\ bump.heap_start = bump.heap_end
        /\ \A size \in Sizes, align \in Aligns :
              /\ alloc(bump, size, align).ptr = null_mut
              /\ alloc(bump, size, align).bump = bump
        /\ last.op = "alloc" => (last.ret = null_mut /\ ~last.ok)

\* C13 witness: init_heap mapped its first page, ran out of frames at the
\* second and returned the error; an allocation made afterwards failed.
C13_Witness ==
    /\ init_heap_result.called
    /\ init_heap_result.err = "FrameAllocationFailed"
    /\ init_heap_result.failed = 2
    /\ translate_addr(tables, init_heap_result.pages[1], physical_memory_offset).tag = "Some"
    /\ last.op = "alloc"
    /\ last.ret = null_mut

\* C26: the frames init_heap mapped as heap pages are pairwise distinct, and
\* none of them holds a page table: not one the mapper created during the
\* bootstrap (before, in or after init_heap), and not one of the boot
\* loader's.
C26_HeapFramesNotTables ==
    init_heap_result.called =>
        /\ \A i, j \in DOMAIN init_heap_result.frames :
              i # j => init_heap_result.frames[i] # init_heap_result.frames[j]
        /\ \A i \in DOMAIN init_heap_result.frames :
              init_heap_result.frames[i] \notin DOMAIN tables

\* C26 witness: init_heap mapped two heap pages; the frame of the first was
\* taken from the cursor before the three tables the mapper had to create,
\* the frame of the second after them.
C26_Witness ==
    /\ init_heap_result.called
    /\ init_heap_result.err = "Ok"
    /\ Len(init_heap_result.frames) = 2
    /\ Cardinality(DOMAIN tables \ DOMAIN BootTables) = 3
    /\ \A t \in DOMAIN tables \ DOMAIN BootTables :
          /\ init_heap_result.frames[1] < t
          /\ t < init_heap_result.frames[2]

\* The step is a second init_heap call.
SecondInitHeap ==
    init_heap_result.second = "none" /\ init_heap_result'.second # "none"

\* What a second init_heap call leaves alone: the page tables with every
\* heap mapping in them, the heap allocator's arena, and the allocator is
\* not initialised again.
SecondCallChangesNothing ==
    /\ tables' = tables
    /\ mapped' = mapped
    /\ \A page \in HeapPages(init_heap_result.start, init_heap_result.size) :
          translate_addr(tables', page, physical_memory_offset)
              = translate_addr(tables, page, physical_memory_offset)
    /\ bump' = bump
    /\ heap_inited' = heap_inited
    /\ ~init_heap_result'.second_init

\* C27 as stated: a second init_heap call after a successful first one fails
\* with PageAlreadyMapped on the first heap page, leaves the heap mappings
\* and the allocator's arena unchanged and does not initialise the allocator
\* again.
C27_Original ==
    [][ SecondInitHeap =>
          /\ init_heap_result'.second = "PageAlreadyMapped"
          /\ init_heap_result'.second_failed = 1
          /\ SecondCallChangesNothing ]_vars

\* C27 amended: a second init_heap call after a successful first one fails
\* on the first heap page, with PageAlreadyMapped when the frame allocator
\* still has a frame to supply and with FrameAllocationFailed when it has
\* none; it leaves the heap mappings and the allocator's arena unchanged and
\* does not initialise the allocator again; the frame allocator's cursor
\* moves on by one.
C27_InitHeapNotRepeatable ==
    [][ SecondInitHeap =>
          /\ init_heap_result'.second =
                IF FramesLeft(frame_allocator) > 0
                THEN "PageAlreadyMapped"
                ELSE "FrameAllocationFailed"
          /\ init_heap_result'.second_failed = 1
          /\ SecondCallChangesNothing
          /\ frame_allocator'.next = frame_allocator.next + 1 ]_vars

\* C27 witness: init_heap had mapped the heap's page and initialised the
\* allocator; called again with one frame left, it was refused on that
\* page, which still translates to the frame of the first call, and the
\* frame allocator is now exhausted.
C27_Witness ==
    /\ init_heap_result.second = "PageAlreadyMapped"
    /\ init_heap_result.second_failed = 1
    /\ Len(init_heap_result.frames) = 1
    /\ heap_inited
    /\ translate_addr(tables, init_heap_result.start, physical_memory_offset)
          = SomeAddr(init_heap_result.frames[1] + (init_heap_result.start % PAGE_SIZE))
    /\ bump.heap_start = init_heap_result.start
    /\ FramesLeft(frame_allocator) = 0

(***************************************************************************)
(* The lock around the heap allocator, Locked<BumpAllocator>,              *)
(* src/src/allocator/bump.rs.  alloc and dealloc run here statement by     *)
(* statement, called from two execution contexts of the one core: kernel   *)
(* code, and an interrupt handler that runs to its end before the code it  *)
(* interrupted goes on.                                                    *)
(***************************************************************************)
Contexts == {"kernel", "interrupt"}

\* The arenas and the layouts (size, align) of the calls: blocks that fit,
\* a block larger than the arena, which at the top of the address space also
\* overflows the end address.
LockedArenas == { <<start, MaxHeapSize>> : start \in HeapStarts }
LockedLayouts == { <<1, 1>>, <<2, 2>>, <<MaxHeapSize + 1, 1>> }

\* A context's locals outside a call.
NoLocals == [op |-> "none", size |-> 0, align |-> 0, alloc_start |-> 0,
             alloc_end |-> 0, ret |-> 0, expect |-> 0]

\* A lock that lets every caller in.
lock_no_exclusion(locked) == [acquired |-> TRUE, locked |-> TRUE]

\* Locked::lock, one attempt of the spin lock's loop: the lock is taken if it
\* was free, otherwise the caller goes on spinning.
Locked_lock(locked) ==
    IF locked
    THEN [acquired |-> FALSE, locked |-> locked]
    ELSE [acquired |-> TRUE, locked |-> TRUE]

\* Context c may execute: an interrupt handler runs as soon as it is entered,
\* kernel code runs while no handler is active.
may_run(c) == c = "interrupt" \/ pc["interrupt"] = "idle"

\* What the calls on the locked allocator leave alone.
locked_rest == <<heap_inited, last, frame_vars, paging_vars, scenario_vars, boot_vars,
                 console_vars, kernel_vars, global_vars, print_vars>>

InitLocked ==
    /\ \E arena \in LockedArenas :
          bump = BumpAllocator_init(BumpAllocator_new, arena[1], arena[2])
    /\ heap_inited = TRUE
    /\ blocks = <<>>
    /\ last = NoCall
    /\ FramesIdle /\ PagingIdle
    /\ ScenarioIdle /\ BootIdle /\ ConsoleIdle /\ KernelIdle /\ GlobalIdle /\ PrintIdle
    /\ lock = FALSE
    /\ pc = [c \in Contexts |-> "idle"]
    /\ call = [c \in Contexts |-> NoLocals]
    /\ serial = bump

\* Context c calls alloc(layout).
CallAlloc(c) ==
    /\ pc[c] = "idle"
    /\ may_run(c)
    /\ \E layout \in LockedLayouts :
          call' = [call EXCEPT ![c] = [NoLocals EXCEPT !.op = "alloc",
                                                       !.size = layout[1],
                                                       !.align = layout[2]]]
    /\ pc' = [pc EXCEPT ![c] = "lock"]
    /\ UNCHANGED <<bump, blocks, lock, serial, locked_rest>>

\* Context c calls dealloc for a block it holds (the oldest one).
CallDealloc(c) ==
    /\ pc[c] = "idle"
    /\ may_run(c)
    /\ \E i \in DOMAIN blocks :
          /\ blocks[i].live
          /\ \A j \in DOMAIN blocks : j < i => ~blocks[j].live
          /\ blocks' = [blocks EXCEPT ![i].live = FALSE]
    /\ call' = [call EXCEPT ![c] = [NoLocals EXCEPT !.op = "dealloc"]]
    /\ pc' = [pc EXCEPT ![c] = "lock"]
    /\ UNCHANGED <<bump, lock, serial, locked_rest>>

\* `let mut bump = self.lock()`: c takes the lock when it is free.  The calls
\* are put in the order in which they take the lock: `serial` is the
\* allocator after running them whole in that order, `expect` what c's call
\* returns there.
Acquire(c) ==
    /\ pc[c] = "lock"
    /\ may_run(c)
    /\ Locked_lock(lock).acquired
    /\ lock' = Locked_lock(lock).locked
    /\ IF call[c].op = "alloc"
       THEN /\ pc' = [pc EXCEPT ![c] = "alloc_start"]
            /\ serial' = alloc(serial, call[c].size, call[c].align).bump
            /\ call' = [call EXCEPT ![c].expect =
                            alloc(serial, call[c].size, call[c].align).ptr]
       ELSE /\ pc' = [pc EXCEPT ![c] = "decrement"]
            /\ serial' = dealloc(serial)
            /\ call' = call
    /\ UNCHANGED <<bump, blocks, locked_rest>>

\* let alloc_start = align_up(bump.next, layout.align()).
AllocStart(c) ==
    /\ pc[c] = "alloc_start"
    /\ may_run(c)
    /\ call' = [call EXCEPT ![c].alloc_start = align_up(bump.next, call[c].align)]
    /\ pc' = [pc EXCEPT ![c] = "alloc_end"]
    /\ UNCHANGED <<bump, blocks, lock, serial, locked_rest>>

\* let alloc_end = checked_add ...; if alloc_end > bump.heap_end: the two
\* returns of null, or on to the assignments.
AllocEnd(c) ==
    /\ pc[c] = "alloc_end"
    /\ may_run(c)
    /\ LET alloc_end == checked_add(call[c].alloc_start, call[c].size)
       IN  IF alloc_end = None
           THEN /\ call' = [call EXCEPT ![c].ret = null_mut]
                /\ pc' = [pc EXCEPT ![c] = "return"]
           ELSE IF alloc_end > bump.heap_end
                THEN /\ call' = [call EXCEPT ![c].ret = null_mut]
                     /\ pc' = [pc EXCEPT ![c] = "return"]
                ELSE /\ call' = [call EXCEPT ![c].alloc_end = alloc_end]
                     /\ pc' = [pc EXCEPT ![c] = "set_next"]
    /\ UNCHANGED <<bump, blocks, lock, serial, locked_rest>>

\* bump.next = alloc_end.
SetNext(c) ==
    /\ pc[c] = "set_next"
    /\ may_run(c)
    /\ bump' = [bump EXCEPT !.next = call[c].alloc_end]
    /\ pc' = [pc EXCEPT ![c] = "count"]
    /\ UNCHANGED <<blocks, lock, call, serial, locked_rest>>

\* bump.allocations += 1; alloc_start as *mut u8.
Count(c) ==
    /\ pc[c] = "count"
    /\ may_run(c)
    /\ bump' = [bump EXCEPT !.allocations = @ + 1]
    /\ call' = [call EXCEPT ![c].ret = call[c].alloc_start]
    /\ blocks' = Append(blocks, [addr |-> call[c].alloc_start, size |-> call[c].size,
                                  live |-> TRUE])
    /\ pc' = [pc EXCEPT ![c] = "return"]
    /\ UNCHANGED <<lock, serial, locked_rest>>

\* bump.allocations -= 1; if bump.allocations == 0.
Decrement(c) ==
    /\ pc[c] = "decrement"
    /\ may_run(c)
    /\ bump' = [bump EXCEPT !.allocations = @ - 1]
    /\ pc' = [pc EXCEPT ![c] = IF bump'.allocations = 0 THEN "reset" ELSE "return"]
    /\ UNCHANGED <<blocks, lock, call, serial, locked_rest>>

\* bump.next = bump.heap_start.
Reset(c) ==
    /\ pc[c] = "reset"
    /\ may_run(c)
    /\ bump' = [bump EXCEPT !.next = bump.heap_start]
    /\ blocks' = <<>>
    /\ pc' = [pc EXCEPT ![c] = "return"]
    /\ UNCHANGED <<lock, call, serial, locked_rest>>

\* The call returns; the guard `bump` is dropped, which frees the lock.
Return(c) ==
    /\ pc[c] = "return"
    /\ may_run(c)
    /\ lock' = FALSE
    /\ pc' = [pc EXCEPT ![c] = "idle"]
    /\ UNCHANGED <<bump, blocks, call, serial, locked_rest>>

\* The steps of a call that is under way.
Proceed(c) ==
    \/ Acquire(c) \/ AllocStart(c) \/ AllocEnd(c) \/ SetNext(c) \/ Count(c)
    \/ Decrement(c) \/ Reset(c) \/ Return(c)

NextLocked == \E c \in Contexts : CallAlloc(c) \/ CallDealloc(c) \/ Proceed(c)

SpecLocked == InitLocked /\ [][NextLocked]_vars

(***************************************************************************)
(* Claims about the lock (checked under SpecLocked).                       *)
(***************************************************************************)
\* Context c is between taking the lock and returning.
InCall(c) == pc[c] \notin {"idle", "lock"}

\* C14: the statements of alloc and dealloc calls from the two contexts never
\* interleave: at most one context is between taking the lock and returning;
\* whenever the lock is free the allocator is in the state that running the
\* calls whole, one after the other in the order they took the lock, leaves;
\* every alloc returns what it returns in that serial order; and the blocks
\* handed out since the last reset do not overlap.
C14_MutualExclusion ==
    /\ ~(InCall("kernel") /\ InCall("interrupt"))
    /\ (\E c \in Contexts : InCall(c)) => lock
    /\ ~lock => bump = serial
    /\ \A c \in Contexts :
          (pc[c] \in {"return", "idle"} /\ call[c].op = "alloc")
              => call[c].ret = call[c].expect
    /\ \A i, j \in DOMAIN blocks :
          i < j => blocks[i].addr + blocks[i].size <= blocks[j].addr

\* C14 witness: kernel code has called alloc and not yet taken the lock; an
\* interrupt handler's alloc ran in between and got a block of its own above
\* an earlier one.
C14_Witness ==
    /\ pc["kernel"] = "lock"
    /\ call["kernel"].op = "alloc"
    /\ pc["interrupt"] = "return"
    /\ call["interrupt"].op = "alloc"
    /\ lock
    /\ Len(blocks) >= 2
    /\ blocks[Len(blocks)].addr = call["interrupt"].ret
    /\ call["interrupt"].ret > bump.heap_start

Rows == 0 .. (BUFFER_HEIGHT - 1)
Cols == 0 .. (BUFFER_WIDTH - 1)

\* ColorCode::new: (background as u8) << 4 | (foreground as u8); the two
\* nibbles do not overlap, so the or is a sum.
ColorCode_new(foreground, background) == (background * 16 + foreground) % 256

ScreenChar(ascii_character, color_code) ==
    [ascii_character |-> ascii_character, color_code |-> color_code]

\* What the text buffer holds before the writer touches it: a cleared
\* screen, or a screen full of some other text.
BootScreens == { ScreenChar(Space, ColorCode_new(LightGray, Black)),
                 ScreenChar(LetterX, ColorCode_new(LightGray, Black)) }

\* Writer::clear_row: the row filled with blanks in the writer's colour.
clear_row(w, row) ==
    [w EXCEPT !.buffer[row] = [col \in Cols |-> ScreenChar(Space, w.color_code)]]

\* A new_line that leaves the column where it was.
new_line_keep_column(w) ==
    clear_row([w EXCEPT !.buffer = [row \in Rows |->
                                       IF row + 1 \in Rows THEN w.buffer[row + 1]
                                                           ELSE w.buffer[row]]],
              BUFFER_HEIGHT - 1)

\* Writer::new_line: every row from 1 on is copied to the row above it (row 1
\* first, so each copy reads a row not yet overwritten), the last row is
\* cleared, the column goes back to 0.
new_line(w) ==
    [clear_row([w EXCEPT !.buffer = [row \in Rows |->
                                        IF row + 1 \in Rows THEN w.buffer[row + 1]
                                                            ELSE w.buffer[row]]],
               BUFFER_HEIGHT - 1)
        EXCEPT !.column_position = 0]

\* A run of the writer: the writer w, the cells (row, column) it has written
\* characters to, and whether an index into buffer.chars was out of bounds
\* (the array index check panics, nothing is executed after it).
StartRun(w) == [w |-> w, targets |-> <<>>, fault |-> FALSE]

\* A write_byte that does not wrap a full line.
write_byte_no_wrap(r, byte) ==
    IF r.fault THEN r
    ELSE IF byte = Newline THEN [r EXCEPT !.w = new_line(r.w)]
    ELSE LET row == BUFFER_HEIGHT - 1
             col == r.w.column_position
         IN  IF row \in Rows /\ col \in Cols
             THEN [w |-> [r.w EXCEPT !.buffer[row][col] = ScreenChar(byte, r.w.color_code),
                                     !.column_position = col + 1],
                   targets |-> Append(r.targets, <<row, col>>),
                   fault |-> FALSE]
             ELSE [r EXCEPT !.targets = Append(r.targets, <<row, col>>),
                            !.fault = TRUE]

\* Writer::write_byte.
write_byte(r, byte) ==
    IF r.fault THEN r
    ELSE IF byte = Newline THEN [r EXCEPT !.w = new_line(r.w)]
    ELSE LET w1 == IF r.w.column_position >= BUFFER_WIDTH THEN new_line(r.w) ELSE r.w
             row == BUFFER_HEIGHT - 1
             col == w1.column_position
         IN  IF row \in Rows /\ col \in Cols
             THEN [w |-> [w1 EXCEPT !.buffer[row][col] = ScreenChar(byte, w1.color_code),
                                    !.column_position = col + 1],
                   targets |-> Append(r.targets, <<row, col>>),
                   fault |-> FALSE]
             ELSE [w |-> w1,
                   targets |-> Append(r.targets, <<row, col>>),
                   fault |-> TRUE]

\* byte >= 0x20 && byte <= 0x7E || byte == b'\n'.
Printable(byte) == (byte >= 32 /\ byte <= 126) \/ byte = Newline

\* Writer::write_string: byte by byte, anything not printable as '*'.
RECURSIVE write_string(_, _)
write_string(r, s) ==
    IF s = <<>> THEN r
    ELSE write_string(write_byte(r, IF Printable(Head(s)) THEN Head(s) ELSE Star),
                      Tail(s))

\* The strings written: the first n letters of "abcde..." for the lengths 0,
\* 1 and around the screen width, and strings with newlines, with the ends
\* of the printable range, and with bytes outside it.
Line(n) == [i \in 1 .. n |-> 96 + i]
Strings ==
    { Line(n) : n \in {0, 1, BUFFER_WIDTH - 1, BUFFER_WIDTH, BUFFER_WIDTH + 1} }
        \cup { <<Newline>>, <<Newline, Newline>>, <<97, Newline, 98>>,
               <<32, 126>>, <<31, 127>> }
Bytes == { Newline, 97, 127 }

\* The last three strings written.
Push(q, s) == IF Len(q) < 3 THEN Append(q, s) ELSE Append(Tail(q), s)

InitConsole ==
    /\ HeapNew /\ FramesIdle /\ PagingIdle
    /\ ScenarioIdle /\ BootIdle /\ LockedIdle /\ KernelIdle /\ GlobalIdle /\ PrintIdle
    /\ \E c \in BootScreens :
          writer = [column_position |-> 0,
                    color_code |-> ColorCode_new(Yellow, Black),
                    buffer |-> [row \in Rows |-> [col \in Cols |-> c]]]
    /\ vga_last = [targets |-> <<>>, fault |-> FALSE]
    /\ recent = <<>>
    /\ writes = 0

console_rest == <<heap_vars, frame_vars, paging_vars, scenario_vars, boot_vars,
                  locked_vars, kernel_vars, global_vars, print_vars>>

\* writer.write_byte(byte).
WriteByte ==
    /\ writes < MaxWrites
    /\ ~vga_last.fault
    /\ \E byte \in Bytes :
          \E r \in { write_byte(StartRun(writer), byte) } :
             /\ writer' = r.w
             /\ vga_last' = [targets |-> r.targets, fault |-> r.fault]
             /\ recent' = Push(recent, <<byte>>)
    /\ writes' = writes + 1
    /\ UNCHANGED console_rest

\* writer.write_str(s), which is write_string(s).
WriteString ==
    /\ writes < MaxWrites
    /\ ~vga_last.fault
    /\ \E s \in Strings :
          \E r \in { write_string(StartRun(writer), s) } :
             /\ writer' = r.w
             /\ vga_last' = [targets |-> r.targets, fault |-> r.fault]
             /\ recent' = Push(recent, s)
    /\ writes' = writes + 1
    /\ UNCHANGED console_rest

NextConsole == WriteByte \/ WriteString

SpecConsole == InitConsole /\ [][NextConsole]_vars


(***************************************************************************)
(* Claims about the console (checked under SpecConsole).                   *)
(***************************************************************************)
\* s is printable ASCII without a newline and fits on one screen line.
FitsOneLine(s) ==
    /\ Len(s) <= BUFFER_WIDTH
    /\ \A i \in DOMAIN s : s[i] >= 32 /\ s[i] <= 126

\* C19: whatever was written before, once a newline, then a string s of
\* printable ASCII that fits on one line, then a newline have been written,
\* row BUFFER_HEIGHT - 2 holds the characters of s in order in the columns
\* 0 .. Len(s) - 1.
C19_LinePlacement ==
    (/\ Len(recent) = 3
     /\ recent[1] = <<Newline>>
     /\ recent[3] = <<Newline>>
     /\ FitsOneLine(recent[2]))
        => \A i \in DOMAIN recent[2] :
              writer.buffer[BUFFER_HEIGHT - 2][i - 1].ascii_character = recent[2][i]

\* C19 witness: after an earlier write, a newline, a string that fills the
\* whole line and a newline were written; the string is in row
\* BUFFER_HEIGHT - 2 and the last row is blank.
C19_Witness ==
    /\ writes = MaxWrites
    /\ recent = << <<Newline>>, Line(BUFFER_WIDTH), <<Newline>> >>
    /\ \A col \in Cols :
          /\ writer.buffer[BUFFER_HEIGHT - 2][col].ascii_character = Line(BUFFER_WIDTH)[col + 1]
          /\ writer.buffer[BUFFER_HEIGHT - 1][col].ascii_character = Space
    /\ writer.column_position = 0

\* C20: after any sequence of write_byte and write_string calls the column
\* is at most BUFFER_WIDTH, every character was written to row
\* BUFFER_HEIGHT - 1 at a column below BUFFER_WIDTH, no index was outside the
\* buffer, and the buffer keeps its shape.
C20_WriterInBounds ==
    /\ writer.column_position <= BUFFER_WIDTH
    /\ ~vga_last.fault
    /\ \A i \in DOMAIN vga_last.targets :
          /\ vga_last.targets[i][1] = BUFFER_HEIGHT - 1
          /\ vga_last.targets[i][2] \in Cols
    /\ DOMAIN writer.buffer = Rows
    /\ \A row \in Rows : DOMAIN writer.buffer[row] = Cols

\* C20 witness: a full line was written (the column stood at BUFFER_WIDTH),
\* then a string one longer than a line: its first character wrapped to
\* column 0 of the last row, its last character wrapped again, and the full
\* line has scrolled two rows up or off the screen.
C20_Witness ==
    /\ writes = MaxWrites
    /\ recent = << <<Newline>>, Line(BUFFER_WIDTH), Line(BUFFER_WIDTH + 1) >>
    /\ Len(vga_last.targets) = BUFFER_WIDTH + 1
    /\ vga_last.targets[1] = <<BUFFER_HEIGHT - 1, 0>>
    /\ vga_last.targets[BUFFER_WIDTH] = <<BUFFER_HEIGHT - 1, BUFFER_WIDTH - 1>>
    /\ vga_last.targets[BUFFER_WIDTH + 1] = <<BUFFER_HEIGHT - 1, 0>>
    /\ writer.column_position = 1
    /\ writer.buffer[BUFFER_HEIGHT - 1][0].ascii_character = 96 + BUFFER_WIDTH + 1


(***************************************************************************)
(* The kernel's entry point, src/src/main.rs: kernel_main from its first   *)
(* statement to the halt loop (the build without cfg(test)), the panic     *)
(* handler, and the timer interrupt handler of src/src/interrupts.rs that  *)
(* prints a dot.  `mappers` counts the OffsetPageTable values obtained     *)
(* from memory::init, each of them a &'static mut to the level 4 table.    *)
(***************************************************************************)
\* The bytes of "Hello World!\n", "It did not crash!\n", "." and the panic
\* message, shortened to their first letters and the newline.
HelloWorld == <<72, Newline>>
DidNotCrash == <<73, Newline>>
Dot == <<46>>
PanicInfo == <<112, Newline>>

\* The page kernel_main maps: Page::containing_address(0xdeadbeaf000), here
\* the page of the paging model that no boot table maps.
KernelPage == PageAt(1, 0, 0, 0)

\* A kernel_main that obtains the mapper again after the example mapping.
kernel_main_reinit(at, ok) ==
    CASE at = "println_hello"          -> "init"
      [] at = "init"                   -> "memory_init"
      [] at = "memory_init"            -> "frame_allocator_init"
      [] at = "frame_allocator_init"   -> "create_example_mapping"
      [] at = "create_example_mapping" -> IF ok THEN "memory_init" ELSE "panic"
      [] at = "write_volatile"         -> "println_done"
      [] at = "println_done"           -> "hault_loop"
      [] at = "panic"                  -> "hault_loop"
      [] OTHER                         -> at

\* The statement kernel_main executes after the one at `at`; ok tells whether
\* that one returned (true) or panicked.
kernel_main(at, ok) ==
    CASE at = "println_hello"          -> "init"
      [] at = "init"                   -> "memory_init"
      [] at = "memory_init"            -> "frame_allocator_init"
      [] at = "frame_allocator_init"   -> "create_example_mapping"
      [] at = "create_example_mapping" -> IF ok THEN "write_volatile" ELSE "panic"
      [] at = "write_volatile"         -> "println_done"
      [] at = "println_done"           -> "hault_loop"
      [] at = "panic"                  -> "hault_loop"
      [] OTHER                         -> at

\* rust_os::init has run: interrupts are enabled.
interrupts_enabled == kernel_pc \notin {"println_hello", "init"}

\* vga_buffer::_print: the string written to WRITER with interrupts off.
vga_print(s) ==
    \E r \in { write_string(StartRun(writer), s) } :
       /\ writer' = r.w
       /\ vga_last' = [targets |-> r.targets, fault |-> r.fault]
       /\ recent' = Push(recent, s)
       /\ writes' = writes + 1

InitKernel ==
    /\ HeapNew
    /\ ScenarioIdle /\ BootIdle /\ LockedIdle /\ GlobalIdle /\ PrintIdle
    /\ tables = BootTables
    /\ \E k \in 0 .. MaxUsable :
          frame_allocator = [memory_map |-> PagingMemoryMap(k), next |-> 0]
    /\ frames_out = <<>>
    /\ mapped = <<>>
    /\ pt_last = [op |-> "none", addr |-> 0, tag |-> "none", value |-> 0]
    /\ halted = FALSE
    /\ \E c \in BootScreens :
          writer = [column_position |-> 0,
                    color_code |-> ColorCode_new(Yellow, Black),
                    buffer |-> [row \in Rows |-> [col \in Cols |-> c]]]
    /\ vga_last = [targets |-> <<>>, fault |-> FALSE]
    /\ recent = <<>>
    /\ writes = 0
    /\ kernel_pc = "println_hello"
    /\ mappers = 0
    /\ ticks = 0

kernel_rest == <<heap_vars, frames_out, scenario_vars, boot_vars, locked_vars,
                 global_vars, print_vars>>

\* println!("Hello World{}", "!").
PrintlnHello ==
    /\ kernel_pc = "println_hello"
    /\ vga_print(HelloWorld)
    /\ kernel_pc' = kernel_main(kernel_pc, TRUE)
    /\ UNCHANGED <<frame_allocator, paging_vars, mappers, ticks, kernel_rest>>

\* rust_os::init(): descriptor tables and interrupt controller set up,
\* interrupts enabled.
RustOsInit ==
    /\ kernel_pc = "init"
    /\ kernel_pc' = kernel_main(kernel_pc, TRUE)
    /\ UNCHANGED <<frame_allocator, paging_vars, console_vars, mappers, ticks,
                   kernel_rest>>

\* let mut mapper = unsafe { memory::init(phys_mem_offset) }.
MemoryInit ==
    /\ kernel_pc = "memory_init"
    /\ mappers' = mappers + 1
    /\ kernel_pc' = kernel_main(kernel_pc, TRUE)
    /\ pt_last' = [op |-> "init", addr |-> physical_memory_offset, tag |-> "Ok",
                   value |-> 0]
    /\ UNCHANGED <<frame_allocator, tables, mapped, halted, console_vars, ticks,
                   kernel_rest>>

\* let mut frame_allocator = BootInfoFrameAllocator::init(&boot_info.memory_map).
FrameAllocatorInit ==
    /\ kernel_pc = "frame_allocator_init"
    /\ frame_allocator' = BootInfoFrameAllocator_init(frame_allocator.memory_map)
    /\ kernel_pc' = kernel_main(kernel_pc, TRUE)
    /\ UNCHANGED <<paging_vars, console_vars, mappers, ticks, kernel_rest>>

\* memory::create_example_mapping(page, &mut mapper, &mut frame_allocator);
\* a failed map_to panics.
KernelCreateExampleMapping ==
    /\ kernel_pc = "create_example_mapping"
    /\ \E r \in { create_example_mapping(tables, frame_allocator, KernelPage) } :
          /\ tables' = r.tables
          /\ frame_allocator' = r.fa
          /\ mapped' = IF r.err = "Ok"
                       THEN (KernelPage :> containing_address(VGA_BUFFER)) @@ mapped
                       ELSE mapped
          /\ pt_last' = [op |-> "create_example_mapping", addr |-> KernelPage,
                         tag |-> r.err, value |-> 0]
          /\ kernel_pc' = kernel_main(kernel_pc, r.err = "Ok")
    /\ UNCHANGED <<halted, console_vars, mappers, ticks, kernel_rest>>

\* page_ptr.offset(400).write_volatile(..): a write through the new mapping,
\* 3200 bytes into the frame of the text buffer, beyond the rows of the
\* scaled screen.
WriteVolatile ==
    /\ kernel_pc = "write_volatile"
    /\ pt_last' = [op |-> "write_volatile", addr |-> KernelPage + 3200,
                   tag |-> translate_addr(tables, KernelPage + 3200,
                                          physical_memory_offset).tag,
                   value |-> translate_addr(tables, KernelPage + 3200,
                                            physical_memory_offset).value]
    /\ kernel_pc' = kernel_main(kernel_pc, TRUE)
    /\ UNCHANGED <<frame_allocator, tables, mapped, halted, console_vars, mappers,
                   ticks, kernel_rest>>

\* println!("It did not crash!").
PrintlnDone ==
    /\ kernel_pc = "println_done"
    /\ vga_print(DidNotCrash)
    /\ kernel_pc' = kernel_main(kernel_pc, TRUE)
    /\ UNCHANGED <<frame_allocator, paging_vars, mappers, ticks, kernel_rest>>

\* The panic handler: println!("{}", info), then the halt loop.
PanicHandler ==
    /\ kernel_pc = "panic"
    /\ vga_print(PanicInfo)
    /\ halted' = TRUE
    /\ kernel_pc' = kernel_main(kernel_pc, TRUE)
    /\ UNCHANGED <<frame_allocator, tables, mapped, pt_last, mappers, ticks,
                   kernel_rest>>

\* timer_interrupt_handler: print!("."), end of interrupt.  It runs whenever
\* interrupts are enabled, the halt loop included.
TimerInterrupt ==
    /\ interrupts_enabled
    /\ ticks < MaxTicks
    /\ vga_print(Dot)
    /\ ticks' = ticks + 1
    /\ UNCHANGED <<frame_allocator, paging_vars, kernel_pc, mappers, kernel_rest>>

NextKernel ==
    \/ PrintlnHello \/ RustOsInit \/ MemoryInit \/ FrameAllocatorInit
    \/ KernelCreateExampleMapping \/ WriteVolatile \/ PrintlnDone
    \/ PanicHandler \/ TimerInterrupt

SpecKernel == InitKernel /\ [][NextKernel]_vars

(***************************************************************************)
(* Claims about the boot sequence (checked under SpecKernel).              *)
(***************************************************************************)
\* C16: over the kernel's lifetime memory::init is called at most once, so
\* there are never two mutable views of the level 4 table: no view before
\* the call, exactly one from then on, whatever the interrupts and whether
\* or not the boot panics.
C16_OneShotInit ==
    /\ mappers <= 1
    /\ (mappers = 1) <=> (kernel_pc \notin {"println_hello", "init", "memory_init"})

\* C16 witness: the kernel reached the halt loop after the example mapping
\* was made through the one mapper, with timer interrupts on the way.
C16_Witness ==
    /\ kernel_pc = "hault_loop"
    /\ ~halted
    /\ mappers = 1
    /\ KernelPage \in DOMAIN mapped
    /\ ticks = MaxTicks

(***************************************************************************)
(* The global allocator, src/src/allocator.rs: ALLOCATOR is a              *)
(* linked_list_allocator::LockedHeap, a first-fit free list.  Beside it    *)
(* runs the bump allocator of src/src/allocator/bump.rs on the same calls, *)
(* for as long as the two return the same.                                 *)
(***************************************************************************)
\* The arena after a successful heap bootstrap, scaled.
GlobalArena == [heap_start |-> 4 * HOLE_MIN_SIZE, heap_size |-> 4 * HOLE_MIN_SIZE]

\* The layouts (size, align) of the calls.
GlobalLayouts ==
    { <<1, 1>>, <<HOLE_MIN_SIZE, 1>>, <<HOLE_MIN_SIZE, HOLE_MIN_SIZE>>,
      <<2 * HOLE_MIN_SIZE, HOLE_ALIGN>> }

\* Heap::init(heap_bottom, heap_size): one hole, the whole arena.
Heap_init(bottom, size) ==
    [bottom |-> bottom, size |-> size,
     holes |-> << [addr |-> bottom, size |-> size] >>]

\* The size a request is served with: at least a hole's size, rounded up to
\* a hole's alignment.
hole_size(size) ==
    align_up(IF size < HOLE_MIN_SIZE THEN HOLE_MIN_SIZE ELSE size, HOLE_ALIGN)

\* split_hole: the block of `size` bytes aligned to `align` cut from the
\* hole, with the holes left in front of it and behind it; no block when it
\* does not fit or would leave a rest too small for a hole.
split_hole(hole, size, align) ==
    LET aligned == IF hole.addr = align_up(hole.addr, align)
                   THEN hole.addr
                   ELSE align_up(hole.addr + HOLE_MIN_SIZE, align)
        front == IF aligned = hole.addr
                 THEN <<>>
                 ELSE << [addr |-> hole.addr, size |-> aligned - hole.addr] >>
        rest == hole.addr + hole.size - (aligned + size)
    IN  IF rest < 0 \/ (rest > 0 /\ rest < HOLE_MIN_SIZE)
        THEN [ok |-> FALSE, addr |-> 0, holes |-> <<>>]
        ELSE [ok |-> TRUE, addr |-> aligned,
              holes |-> front \o (IF rest = 0
                                  THEN <<>>
                                  ELSE << [addr |-> aligned + size, size |-> rest] >>)]

\* Heap::allocate_first_fit: the first hole, in address order, that the
\* block can be cut from; null when there is none.
Heap_allocate_first_fit(h, size, align) ==
    LET fits == { i \in DOMAIN h.holes : split_hole(h.holes[i], hole_size(size), align).ok }
    IN  IF fits = {}
        THEN [heap |-> h, ptr |-> null_mut]
        ELSE LET i == CHOOSE k \in fits : \A j \in fits : k <= j
                 cut == split_hole(h.holes[i], hole_size(size), align)
             IN  [heap |-> [h EXCEPT !.holes = SubSeq(h.holes, 1, i - 1) \o cut.holes
                                                \o SubSeq(h.holes, i + 1, Len(h.holes))],
                  ptr |-> cut.addr]

\* Neighbouring holes that touch become one.
RECURSIVE merge_holes(_)
merge_holes(holes) ==
    IF Len(holes) < 2
    THEN holes
    ELSE IF holes[1].addr + holes[1].size = holes[2].addr
         THEN merge_holes(<< [addr |-> holes[1].addr,
                              size |-> holes[1].size + holes[2].size] >>
                          \o SubSeq(holes, 3, Len(holes)))
         ELSE <<holes[1]>> \o merge_holes(Tail(holes))

\* Heap::deallocate(ptr, layout): the block goes back into the list as a
\* hole, in address order, merged with the holes it touches.
Heap_deallocate(h, ptr, size) ==
    LET before == SelectSeq(h.holes, LAMBDA x : x.addr < ptr)
        after == SelectSeq(h.holes, LAMBDA x : x.addr > ptr)
    IN  [h EXCEPT !.holes = merge_holes(before
                                        \o << [addr |-> ptr, size |-> hole_size(size)] >>
                                        \o after)]

InitGlobal ==
    /\ bump = BumpAllocator_init(BumpAllocator_new, GlobalArena.heap_start,
                                 GlobalArena.heap_size)
    /\ heap_inited = TRUE
    /\ blocks = <<>>
    /\ last = NoCall
    /\ FramesIdle /\ PagingIdle
    /\ ScenarioIdle /\ BootIdle /\ LockedIdle /\ ConsoleIdle /\ KernelIdle /\ PrintIdle
    /\ heap = Heap_init(GlobalArena.heap_start, GlobalArena.heap_size)
    /\ global_last = NoGlobalCall

global_rest == <<heap_inited, last, frame_vars, paging_vars, scenario_vars, boot_vars,
                 locked_vars, console_vars, kernel_vars, print_vars>>

\* ALLOCATOR.alloc(layout): the call on the global allocator, and beside it
\* the bump allocator's alloc.
GlobalAlloc ==
    /\ Len(blocks) < MaxGlobalCalls
    /\ \E layout \in GlobalLayouts :
          \E r \in { Heap_allocate_first_fit(heap, layout[1], layout[2]) },
             b \in { alloc(bump, layout[1], layout[2]) } :
             /\ heap' = r.heap
             /\ bump' = IF global_last.agree THEN b.bump ELSE bump
             /\ blocks' = Append(blocks, [addr |-> r.ptr, size |-> layout[1],
                                          live |-> r.ptr # null_mut])
             /\ global_last' = [op |-> "alloc", size |-> layout[1], align |-> layout[2],
                                ret |-> r.ptr, bump_ret |-> b.ptr,
                                agree |-> global_last.agree /\ r.ptr = b.ptr]
    /\ UNCHANGED global_rest

\* ALLOCATOR.dealloc(ptr, layout) for a block the caller holds, and beside
\* it the bump allocator's dealloc.
GlobalDealloc ==
    /\ \E i \in DOMAIN blocks :
          /\ blocks[i].live
          /\ heap' = Heap_deallocate(heap, blocks[i].addr, blocks[i].size)
          /\ blocks' = [blocks EXCEPT ![i].live = FALSE]
          /\ global_last' = [global_last EXCEPT !.op = "dealloc",
                                                !.size = blocks[i].size,
                                                !.ret = blocks[i].addr,
                                                !.bump_ret = blocks[i].addr]
    /\ bump' = IF global_last.agree THEN dealloc(bump) ELSE bump
    /\ UNCHANGED global_rest

NextGlobal == GlobalAlloc \/ GlobalDealloc

SpecGlobal == InitGlobal /\ [][NextGlobal]_vars

(***************************************************************************)
(* Claims about the global allocator (checked under SpecGlobal).           *)
(***************************************************************************)
\* The free memory of the global heap h is what the bump allocator b has
\* not handed out: the one range from b.next to the end of the arena.
SameArena(h, b) ==
    /\ h.bottom = b.heap_start
    /\ h.bottom + h.size = b.heap_end
    /\ h.holes = IF b.next = b.heap_end
                 THEN <<>>
                 ELSE << [addr |-> b.next, size |-> b.heap_end - b.next] >>

\* C25 as stated: after the heap bootstrap every allocate and deallocate
\* made through the global allocator returns what the bump allocator returns
\* for the same calls and leaves the arena as the bump allocator leaves it.
C25_GlobalIsBump ==
    /\ global_last.agree
    /\ SameArena(heap, bump)

(***************************************************************************)
(* Printing under interrupts: vga_buffer::_print and test_println_outout   *)
(* step by step on one CPU, with the timer and keyboard interrupt handlers *)
(* of src/src/interrupts.rs.  The code on top of cpu_stack runs; the code  *)
(* below it was interrupted and resumes when the handler returns.          *)
(***************************************************************************)
\* The interrupt lines with a handler that prints.
Irqs == {"timer", "keyboard"}

\* The handler the IDT holds for an interrupt line.
IDT(irq) ==
    IF irq = "timer" THEN "timer_interrupt_handler" ELSE "keyboard_interrupt_handler"

Handlers == { IDT(irq) : irq \in Irqs }

\* The statements that print: println!("Hello World{}", "!") and
\* println!("It did not crash!") of kernel_main, the test
\* test_println_outout, print!(".") of the timer handler and the print! of
\* the keyboard handler.
PrintStatements ==
    {"println_hello", "println_done", "test_println_outout", "print_dot", "print_key"}

\* Where a statement starts: a printing statement at its call of
\* without_interrupts.
first_step(stmt) == IF stmt \in PrintStatements THEN "without_interrupts" ELSE "run"

\* Code about to execute the statement stmt; rflags_if is the interrupt flag
\* the CPU saved when this code interrupted other code.
Frame(ctx, stmt, rflags_if) ==
    [ctx |-> ctx, stmt |-> stmt, at |-> first_step(stmt), was_enabled |-> FALSE,
     rflags_if |-> rflags_if]

\* The first statement of an interrupt handler.
handler_entry(ctx) ==
    IF ctx = "timer_interrupt_handler" THEN "print_dot" ELSE "read_scancode"

\* The statement after a printing statement.
statement_after(stmt) ==
    CASE stmt = "println_hello"       -> "init"
      [] stmt = "test_println_outout" -> "println_done"
      [] stmt = "println_done"        -> "hault_loop"
      [] stmt = "print_dot"           -> "eoi"
      [] stmt = "print_key"           -> "eoi"
      [] OTHER                        -> stmt

\* A without_interrupts that leaves the interrupt flag as it finds it.
without_interrupts_no_cli(flag) == [was_enabled |-> flag, interrupt_flag |-> flag]

\* interrupts::without_interrupts before it runs the closure: it remembers
\* whether interrupts were enabled and disables them.
without_interrupts(flag) == [was_enabled |-> flag, interrupt_flag |-> FALSE]

\* interrupts::without_interrupts after the closure: interrupts are enabled
\* again if they were enabled before.
without_interrupts_restore(was_enabled, flag) == IF was_enabled THEN TRUE ELSE flag

\* One attempt of spin's Mutex::lock on WRITER by ctx: the lock is taken if
\* it is free, and the caller goes round the loop again if it is not.
WRITER_try_lock(holder, ctx) ==
    IF holder = "none" THEN [acquired |-> TRUE, holder |-> ctx]
                       ELSE [acquired |-> FALSE, holder |-> holder]

\* The running code, and the stack with the running code replaced.
Running == cpu_stack[Len(cpu_stack)]
Resume(f) == [cpu_stack EXCEPT ![Len(cpu_stack)] = f]

InitPrint ==
    /\ HeapNew /\ FramesIdle /\ PagingIdle
    /\ ScenarioIdle /\ BootIdle /\ LockedIdle /\ ConsoleIdle /\ KernelIdle /\ GlobalIdle
    /\ interrupt_flag = FALSE
    /\ WRITER_lock = "none"
    /\ cpu_stack = << Frame("kernel_main", "println_hello", FALSE) >>
    /\ pending = {}

print_rest == <<heap_vars, frame_vars, paging_vars, scenario_vars, boot_vars,
                locked_vars, console_vars, kernel_pc, mappers, global_vars>>

\* The timer or the keyboard raises its interrupt line; the timer ticks at
\* most MaxTicks times.
RaiseInterrupt ==
    /\ \E irq \in Irqs \ pending :
          /\ irq = "timer" => ticks < MaxTicks
          /\ pending' = pending \cup {irq}
    /\ UNCHANGED <<interrupt_flag, WRITER_lock, cpu_stack, ticks, print_rest>>

\* The CPU delivers a raised interrupt: only with the interrupt flag set.
\* It saves the flag, clears it, and runs the handler on top of the
\* interrupted code.
InterruptEntry ==
    /\ interrupt_flag
    /\ \E irq \in pending :
          /\ pending' = pending \ {irq}
          /\ cpu_stack' = Append(cpu_stack,
                                 Frame(IDT(irq), handler_entry(IDT(irq)), interrupt_flag))
    /\ interrupt_flag' = FALSE
    /\ UNCHANGED <<WRITER_lock, ticks, print_rest>>

\* _print and test_println_outout enter interrupts::without_interrupts.
WithoutInterruptsEnter ==
    /\ Running.at = "without_interrupts"
    /\ \E r \in { without_interrupts(interrupt_flag) } :
          /\ interrupt_flag' = r.interrupt_flag
          /\ cpu_stack' = Resume([Running EXCEPT !.was_enabled = r.was_enabled,
                                                 !.at = "lock"])
    /\ UNCHANGED <<WRITER_lock, pending, ticks, print_rest>>

\* WRITER.lock(): one round of the spin loop.
WriterLock ==
    /\ Running.at = "lock"
    /\ \E r \in { WRITER_try_lock(WRITER_lock, Running.ctx) } :
          /\ WRITER_lock' = r.holder
          /\ cpu_stack' = IF r.acquired THEN Resume([Running EXCEPT !.at = "write_fmt"])
                                        ELSE cpu_stack
    /\ UNCHANGED <<interrupt_flag, pending, ticks, print_rest>>

\* write_fmt(args) in _print; writeln! and the reads of the screen in
\* test_println_outout.
WriteFmt ==
    /\ Running.at = "write_fmt"
    /\ WRITER_lock = Running.ctx
    /\ cpu_stack' = Resume([Running EXCEPT !.at = "unlock"])
    /\ UNCHANGED <<interrupt_flag, WRITER_lock, pending, ticks, print_rest>>

\* The guard of WRITER is dropped, inside the closure.
WriterUnlock ==
    /\ Running.at = "unlock"
    /\ WRITER_lock' = "none"
    /\ cpu_stack' = Resume([Running EXCEPT !.at = "restore"])
    /\ UNCHANGED <<interrupt_flag, pending, ticks, print_rest>>

\* without_interrupts returns; the printing statement is over.
WithoutInterruptsExit ==
    /\ Running.at = "restore"
    /\ interrupt_flag' = without_interrupts_restore(Running.was_enabled, interrupt_flag)
    /\ cpu_stack' = Resume(Frame(Running.ctx, statement_after(Running.stmt),
                                 Running.rflags_if))
    /\ UNCHANGED <<WRITER_lock, pending, ticks, print_rest>>

\* rust_os::init() in kernel_main: interrupts are enabled from here on.  The
\* build with cfg(test) runs test_println_outout next.
EnableInterrupts ==
    /\ Running.stmt = "init"
    /\ interrupt_flag' = TRUE
    /\ \E cfg_test \in BOOLEAN :
          cpu_stack' = Resume(Frame(Running.ctx,
                                    IF cfg_test THEN "test_println_outout"
                                                ELSE "println_done",
                                    Running.rflags_if))
    /\ UNCHANGED <<WRITER_lock, pending, ticks, print_rest>>

\* keyboard_interrupt_handler reads the scancode: it prints if the scancode
\* completes a key, and not otherwise.
ReadScancode ==
    /\ Running.stmt = "read_scancode"
    /\ \E key \in BOOLEAN :
          cpu_stack' = Resume(Frame(Running.ctx, IF key THEN "print_key" ELSE "eoi",
                                    Running.rflags_if))
    /\ UNCHANGED <<interrupt_flag, WRITER_lock, pending, ticks, print_rest>>

\* notify_end_of_interrupt and the return from the handler: the interrupted
\* code resumes with the interrupt flag the CPU saved.  `ticks` counts the
\* timer interrupts handled.
EndOfInterrupt ==
    /\ Running.stmt = "eoi"
    /\ interrupt_flag' = Running.rflags_if
    /\ cpu_stack' = SubSeq(cpu_stack, 1, Len(cpu_stack) - 1)
    /\ ticks' = IF Running.ctx = "timer_interrupt_handler" THEN ticks + 1 ELSE ticks
    /\ UNCHANGED <<WRITER_lock, pending, print_rest>>

NextPrint ==
    \/ RaiseInterrupt \/ InterruptEntry \/ WithoutInterruptsEnter \/ WriterLock
    \/ WriteFmt \/ WriterUnlock \/ WithoutInterruptsExit \/ EnableInterrupts
    \/ ReadScancode \/ EndOfInterrupt

SpecPrint == InitPrint /\ [][NextPrint]_vars

(***************************************************************************)
(* Claims about printing under interrupts (checked under SpecPrint).       *)
(***************************************************************************)
\* C28: the WRITER lock is only ever held while interrupts are disabled, so
\* no interrupt handler can start while the interrupted code holds WRITER,
\* and a handler that prints finds WRITER free at its first attempt: it
\* never spins on the lock.
C28_WriterLockedWithInterruptsOff ==
    /\ WRITER_lock # "none" => ~interrupt_flag
    /\ WRITER_lock # "none" => ~ENABLED InterruptEntry
    /\ (Running.ctx \in Handlers /\ Running.at = "lock") =>
          /\ WRITER_lock = "none"
          /\ WRITER_try_lock(WRITER_lock, Running.ctx).acquired

\* C28 witness: after a timer handler has printed, kernel_main holds WRITER
\* inside a print it began with interrupts enabled, while a raised interrupt
\* waits to be delivered.
C28_Witness ==
    /\ ticks > 0
    /\ Len(cpu_stack) = 1
    /\ Running.ctx = "kernel_main"
    /\ WRITER_lock = "kernel_main"
    /\ Running.at = "write_fmt"
    /\ Running.was_enabled
    /\ pending # {}
    /\ ~interrupt_flag

=============================================================================
